---- MODULE Spec2Model ----
(***************************************************************************)
(* Model of the in-memory e-commerce data store (src/src/data/store.ts),   *)
(* of the tools that call it (src/src/mastra/tools, src/unnamed) and of    *)
(* the seed functions (src/unnamed/part_000).                              *)
(*                                                                         *)
(* Representation.                                                         *)
(*  - A JavaScript string is a sequence of one-character strings, so that  *)
(*    toLowerCase() and includes() are computed and not assumed.           *)
(*  - `undefined` (an absent optional field) is the one-element sequence   *)
(*    <<"undefined">>, which no string of characters equals.               *)
(*  - Product objects live in `heap` (reference -> record): updateStock    *)
(*    mutates the object in place, and sampleProducts, both store          *)
(*    instances and every exported snapshot hold references, not copies.   *)
(*  - A Map<string, Product> is a sequence of [key, ref] entries in        *)
(*    insertion order.                                                     *)
(*  - Money is counted in cents, time in clock ticks (one tick is scaled   *)
(*    to one hour; tick 0 is 2024-01-01T00:00).  Two reads of Date.now()   *)
(*    between which the clock did not advance return the same value.       *)
(*  - Fields no modelled operation reads (description, images, weight,     *)
(*    dimensions, customerName, shippingAddress, status) are left out of   *)
(*    the records.                                                         *)
(***************************************************************************)
EXTENDS Integers, Sequences, FiniteSets, TLC

VARIABLES
    heap,         \* product objects: reference -> Product record
    store,        \* `ecommerceStore`, the module-level instance (store.ts:567)
    instance,     \* `EcommerceDataStore.instance`, created lazily by getInstance()
    sampleSales,  \* the module-level sampleSales array, built at load time
    snapshot,     \* the last value returned by exportData() that a caller kept
    now,          \* Date.now()
    ops,          \* number of mutating calls made so far
    ret           \* what the last call returned (or threw)

vars == <<heap, store, instance, sampleSales, snapshot, now, ops, ret>>

(***************************************************************************)
(* Bounds of the model.                                                    *)
(***************************************************************************)
MaxOps == 3        \* mutating calls per behaviour
MaxTicks == 1      \* clock advances per behaviour
MaxRnd == 2        \* distinct outcomes of Math.random().toString(36).substr(2, 9)

(***************************************************************************)
(* Strings.                                                                *)
(***************************************************************************)
undefined == <<"undefined">>

UpperToLower ==
    ("A" :> "a") @@ ("B" :> "b") @@ ("C" :> "c") @@ ("D" :> "d") @@ ("E" :> "e") @@
    ("F" :> "f") @@ ("G" :> "g") @@ ("H" :> "h") @@ ("I" :> "i") @@ ("J" :> "j") @@
    ("K" :> "k") @@ ("L" :> "l") @@ ("M" :> "m") @@ ("N" :> "n") @@ ("O" :> "o") @@
    ("P" :> "p") @@ ("Q" :> "q") @@ ("R" :> "r") @@ ("S" :> "s") @@ ("T" :> "t") @@
    ("U" :> "u") @@ ("V" :> "v") @@ ("W" :> "w") @@ ("X" :> "x") @@ ("Y" :> "y") @@
    ("Z" :> "z")

\* String.prototype.toLowerCase
toLowerCase(s) ==
    [i \in 1..Len(s) |-> IF s[i] \in DOMAIN UpperToLower THEN UpperToLower[s[i]] ELSE s[i]]

\* String.prototype.includes
includes(s, part) ==
    \E i \in 1..(Len(s) - Len(part) + 1) : SubSeq(s, i, i + Len(part) - 1) = part

\* JavaScript truthiness of an optional string: neither undefined nor ""
Truthy(s) == s # undefined /\ s # <<>>

Max(a, b) == IF a >= b THEN a ELSE b

(***************************************************************************)
(* Sample data (store.ts:13-184).                                          *)
(***************************************************************************)
\* a literal id such as "12345"; generated ids are <<"prod", t, r>>
LitId(n) == <<"lit", n, 0>>

Day(d) == 24 * d

sampleProducts ==
    << [id |-> LitId(12345),
        name |-> <<"B","l","u","e"," ","T","-","S","h","i","r","t">>,
        price |-> 1999,
        category |-> <<"C","l","o","t","h","i","n","g">>,
        collection |-> <<"S","u","m","m","e","r"," ","C","o","l","l","e","c","t","i","o","n">>,
        stock |-> 25, isVisible |-> TRUE,
        tags |-> << <<"c","a","s","u","a","l">>, <<"c","o","t","t","o","n">>,
                    <<"b","l","u","e">>, <<"t","-","s","h","i","r","t">> >>,
        sku |-> <<"B","T","S","-","0","0","1">>,
        createdAt |-> Day(14), updatedAt |-> Day(152)],
       [id |-> LitId(12346),
        name |-> <<"L","e","a","t","h","e","r"," ","J","a","c","k","e","t">>,
        price |-> 24999,
        category |-> <<"C","l","o","t","h","i","n","g">>,
        collection |-> <<"W","i","n","t","e","r"," ","C","o","l","l","e","c","t","i","o","n">>,
        stock |-> 8, isVisible |-> TRUE,
        tags |-> << <<"l","e","a","t","h","e","r">>, <<"j","a","c","k","e","t">>,
                    <<"p","r","e","m","i","u","m">>, <<"w","i","n","t","e","r">> >>,
        sku |-> <<"L","J","-","0","0","2">>,
        createdAt |-> Day(31), updatedAt |-> Day(135)],
       [id |-> LitId(12347),
        name |-> <<"W","i","r","e","l","e","s","s"," ","H","e","a","d","p","h","o","n","e","s">>,
        price |-> 19999,
        category |-> <<"E","l","e","c","t","r","o","n","i","c","s">>,
        collection |-> <<"T","e","c","h"," ","E","s","s","e","n","t","i","a","l","s">>,
        stock |-> 0, isVisible |-> TRUE,
        tags |-> << <<"w","i","r","e","l","e","s","s">>, <<"h","e","a","d","p","h","o","n","e","s">>,
                    <<"a","u","d","i","o">>,
                    <<"n","o","i","s","e","-","c","a","n","c","e","l","l","a","t","i","o","n">> >>,
        sku |-> <<"W","H","-","0","0","3">>,
        createdAt |-> Day(69), updatedAt |-> Day(156)],
       [id |-> LitId(12348),
        name |-> <<"R","u","n","n","i","n","g"," ","S","h","o","e","s">>,
        price |-> 12999,
        category |-> <<"F","o","o","t","w","e","a","r">>,
        collection |-> <<"A","t","h","l","e","t","i","c"," ","C","o","l","l","e","c","t","i","o","n">>,
        stock |-> 30, isVisible |-> TRUE,
        tags |-> << <<"r","u","n","n","i","n","g">>, <<"s","h","o","e","s">>,
                    <<"a","t","h","l","e","t","i","c">>,
                    <<"c","o","m","f","o","r","t","a","b","l","e">> >>,
        sku |-> <<"R","S","-","0","0","4">>,
        createdAt |-> Day(19), updatedAt |-> Day(140)],
       [id |-> LitId(12349),
        name |-> <<"W","i","n","t","e","r"," ","S","c","a","r","f">>,
        price |-> 3499,
        category |-> <<"A","c","c","e","s","s","o","r","i","e","s">>,
        collection |-> <<"W","i","n","t","e","r"," ","C","o","l","l","e","c","t","i","o","n">>,
        stock |-> 5, isVisible |-> TRUE,
        tags |-> << <<"s","c","a","r","f">>, <<"w","o","o","l">>,
                    <<"w","i","n","t","e","r">>, <<"w","a","r","m">> >>,
        sku |-> <<"W","S","-","0","0","5">>,
        createdAt |-> Day(45), updatedAt |-> Day(145)],
       [id |-> LitId(12350),
        name |-> <<"C","l","a","s","s","i","c"," ","J","e","a","n","s">>,
        price |-> 7999,
        category |-> <<"C","l","o","t","h","i","n","g">>,
        collection |-> <<"E","s","s","e","n","t","i","a","l","s">>,
        stock |-> 40, isVisible |-> TRUE,
        tags |-> << <<"j","e","a","n","s">>, <<"d","e","n","i","m">>,
                    <<"c","l","a","s","s","i","c">>,
                    <<"e","s","s","e","n","t","i","a","l","s">> >>,
        sku |-> <<"C","J","-","0","0","6">>,
        createdAt |-> Day(9), updatedAt |-> Day(150)] >>

\* the references of the six sampleProducts objects, in array order
SampleRefs == 1..Len(sampleProducts)

\* the sampleSales array as evaluated when the module is loaded at time t
SampleSalesAt(t) ==
    << [id |-> <<"sale-lit", 1, 0>>, productId |-> LitId(12345),
        productName |-> sampleProducts[1].name,
        quantity |-> 3, unitPrice |-> 1999, totalAmount |-> 5997,
        customerEmail |-> <<"j","o","h","n","@","e","x","a","m","p","l","e",".","c","o","m">>,
        paymentMethod |-> <<"c","r","e","d","i","t","_","c","a","r","d">>,
        timestamp |-> t - 24],
       [id |-> <<"sale-lit", 2, 0>>, productId |-> LitId(12348),
        productName |-> sampleProducts[4].name,
        quantity |-> 1, unitPrice |-> 12999, totalAmount |-> 12999,
        customerEmail |-> <<"s","a","r","a","h","@","e","x","a","m","p","l","e",".","c","o","m">>,
        paymentMethod |-> <<"p","a","y","p","a","l">>,
        timestamp |-> t - 24],
       [id |-> <<"sale-lit", 3, 0>>, productId |-> LitId(12349),
        productName |-> sampleProducts[5].name,
        quantity |-> 2, unitPrice |-> 3499, totalAmount |-> 6998,
        customerEmail |-> <<"m","i","k","e","@","e","x","a","m","p","l","e",".","c","o","m">>,
        paymentMethod |-> <<"c","r","e","d","i","t","_","c","a","r","d">>,
        timestamp |-> t - 24],
       [id |-> <<"sale-lit", 4, 0>>, productId |-> LitId(12346),
        productName |-> sampleProducts[2].name,
        quantity |-> 1, unitPrice |-> 24999, totalAmount |-> 24999,
        customerEmail |-> <<"e","m","m","a","@","e","x","a","m","p","l","e",".","c","o","m">>,
        paymentMethod |-> <<"c","r","e","d","i","t","_","c","a","r","d">>,
        timestamp |-> t - 2],
       [id |-> <<"sale-lit", 5, 0>>, productId |-> LitId(12345),
        productName |-> sampleProducts[1].name,
        quantity |-> 5, unitPrice |-> 1999, totalAmount |-> 9995,
        customerEmail |-> <<"a","l","e","x","@","e","x","a","m","p","l","e",".","c","o","m">>,
        paymentMethod |-> <<"d","e","b","i","t","_","c","a","r","d">>,
        timestamp |-> t - 7 * 24] >>

\* times at which the process may start: 2025-07-09 (a Wednesday) at 10:00
StartTimes == {Day(555) + 10}

(***************************************************************************)
(* Map<string, Product> as a sequence of [key, ref] entries.               *)
(***************************************************************************)
Range(f) == {f[i] : i \in DOMAIN f}

MapHas(m, k) == \E i \in DOMAIN m : m[i].key = k

MapIndex(m, k) == CHOOSE i \in DOMAIN m : m[i].key = k

\* Map.prototype.get: the reference, or 0 for undefined
MapGet(m, k) == IF MapHas(m, k) THEN m[MapIndex(m, k)].ref ELSE 0

\* a set that removes the key and inserts it again, last
MapSet_Reinsert(m, k, r) == Append(SelectSeq(m, LAMBDA e : e.key # k), [key |-> k, ref |-> r])

\* Map.prototype.set: an existing key keeps its position, a new key goes last
MapSet(m, k, r) ==
    IF MapHas(m, k)
    THEN [m EXCEPT ![MapIndex(m, k)] = [key |-> k, ref |-> r]]
    ELSE Append(m, [key |-> k, ref |-> r])

\* Map.prototype.delete
MapDelete(m, k) == SelectSeq(m, LAMBDA e : e.key # k)

\* Array.from(map.values()): the product records in insertion order
Values(st, h) == [i \in DOMAIN st.products |-> h[st.products[i].ref]]

\* the smallest reference no live object has (a new object's identity)
NewRef(h) == CHOOSE r \in 1..(Cardinality(DOMAIN h) + 1) :
                 r \notin DOMAIN h /\ \A q \in 1..(r - 1) : q \in DOMAIN h

(***************************************************************************)
(* class EcommerceDataStore (store.ts:186-564).  A method is an operator   *)
(* of the instance `st` and the heap `h`; it yields the fields it changes. *)
(***************************************************************************)
EmptyStore == [products |-> <<>>, sales |-> <<>>, categories |-> {}, collections |-> {}]

\* the effect of products.set / categories.add / collections.add for one object
Register(st, h, r) ==
    [st EXCEPT !.products = MapSet(@, h[r].id, r),
               !.categories = @ \cup {h[r].category},
               !.collections = IF Truthy(h[r].collection)
                               THEN @ \cup {h[r].collection} ELSE @]

RECURSIVE RegisterAll(_, _, _)
RegisterAll(st, h, refs) ==
    IF refs = <<>> THEN st
    ELSE RegisterAll(Register(st, h, Head(refs)), h, Tail(refs))

initializeWithSampleData(st, h, sales) ==
    [RegisterAll(st, h, [i \in SampleRefs |-> i]) EXCEPT !.sales = sales]

\* getProduct: the reference of the stored object, 0 for undefined
getProduct(st, id) == MapGet(st.products, id)

\* for (const product of this.products.values()) if (...) return product;
\* return undefined  -- hits: the positions of the products that match
FirstMatch(entries, hits) ==
    IF hits = {} THEN 0
    ELSE entries[CHOOSE i \in hits : \A j \in hits : i <= j].ref

getProductByName(st, h, name) ==
    FirstMatch(st.products,
               {i \in DOMAIN st.products :
                   includes(toLowerCase(h[st.products[i].ref].name), toLowerCase(name))})

getProductBySku(st, h, sku) ==
    FirstMatch(st.products, {i \in DOMAIN st.products : h[st.products[i].ref].sku = sku})

\* the id addProduct and addSale build from Date.now() and Math.random()
GeneratedId(prefix, t, rnd) == <<prefix, t, rnd>>

\* addProduct: yields the new instance state, the new heap and the new reference
addProduct(st, h, productData, t, rnd) ==
    LET r == NewRef(h)
        newProduct == [f \in DOMAIN productData \cup {"id", "createdAt", "updatedAt"} |->
                          CASE f = "id" -> GeneratedId("prod", t, rnd)
                            [] f = "createdAt" -> t
                            [] f = "updatedAt" -> t
                            [] OTHER -> productData[f]]
        h2 == (r :> newProduct) @@ h
    IN  [st |-> Register(st, h2, r), h |-> h2, ref |-> r]

\* updateProduct that does not register the new category and collection
updateProduct_NoRegister(st, h, id, updates, t) ==
    LET old == getProduct(st, id) IN
    IF old = 0 THEN [st |-> st, h |-> h, ref |-> 0]
    ELSE LET r == NewRef(h)
             updatedProduct == [f \in DOMAIN h[old] |->
                                   IF f = "updatedAt" THEN t
                                   ELSE IF f \in DOMAIN updates THEN updates[f]
                                   ELSE h[old][f]]
         IN  [st |-> [st EXCEPT !.products = MapSet(@, id, r)],
              h |-> (r :> updatedProduct) @@ h, ref |-> r]

\* updateProduct that moves the product between categories and collections: the
\* ones it leaves are taken out of the tracking sets
updateProduct_Recategorises(st, h, id, updates, t) ==
    LET old == getProduct(st, id) IN
    IF old = 0 THEN [st |-> st, h |-> h, ref |-> 0]
    ELSE LET r == NewRef(h)
             updatedProduct == [f \in DOMAIN h[old] |->
                                   IF f = "updatedAt" THEN t
                                   ELSE IF f \in DOMAIN updates THEN updates[f]
                                   ELSE h[old][f]]
         IN  [st |-> [st EXCEPT !.products = MapSet(@, id, r),
                                !.categories = (@ \ {h[old].category})
                                                   \cup {updatedProduct.category},
                                !.collections = IF Truthy(updatedProduct.collection)
                                                THEN (@ \ {h[old].collection})
                                                         \cup {updatedProduct.collection}
                                                ELSE @ \ {h[old].collection}],
              h |-> (r :> updatedProduct) @@ h, ref |-> r]

\* updateProduct: ref = 0 stands for the null it returns when the id is unknown
updateProduct(st, h, id, updates, t) ==
    LET old == getProduct(st, id) IN
    IF old = 0 THEN [st |-> st, h |-> h, ref |-> 0]
    ELSE LET r == NewRef(h)
             updatedProduct == [f \in DOMAIN h[old] |->
                                   IF f = "updatedAt" THEN t
                                   ELSE IF f \in DOMAIN updates THEN updates[f]
                                   ELSE h[old][f]]
             h2 == (r :> updatedProduct) @@ h
             st2 == [st EXCEPT !.products = MapSet(@, id, r),
                               !.categories = @ \cup {updatedProduct.category},
                               !.collections = IF Truthy(updatedProduct.collection)
                                               THEN @ \cup {updatedProduct.collection}
                                               ELSE @]
         IN  [st |-> st2, h |-> h2, ref |-> r]

\* deleteProduct that also removes the sales of the product it deletes
deleteProduct_CascadesSales(st, id) ==
    [st |-> [st EXCEPT !.products = MapDelete(@, id),
                       !.sales = SelectSeq(@, LAMBDA sale : sale.productId # id)],
     ret |-> MapHas(st.products, id)]

deleteProduct(st, id) ==
    [st |-> [st EXCEPT !.products = MapDelete(@, id)], ret |-> MapHas(st.products, id)]

\* a ProductFilters field that was supplied (an omitted field is undefined)
Supplied(filters, field) == field \in DOMAIN filters

\* p.tags.some(tag => tag.toLowerCase().includes(fragment.toLowerCase()))
SomeTagIncludes(tags, fragment) ==
    \E i \in DOMAIN tags : includes(toLowerCase(tags[i]), toLowerCase(fragment))

\* p.collection?.toLowerCase().includes(fragment.toLowerCase()): undefined (falsy)
\* for a product with no collection
CollectionIncludes(p, fragment) ==
    /\ p.collection # undefined
    /\ includes(toLowerCase(p.collection), toLowerCase(fragment))

\* the inStock filter dropping the hidden products too
InStockFilter_VisibleOnly(p, inStock) ==
    p.isVisible /\ (IF inStock THEN p.stock > 0 ELSE p.stock = 0)

\* filters.inStock ? p.stock > 0 : p.stock === 0
InStockFilter(p, inStock) == IF inStock THEN p.stock > 0 ELSE p.stock = 0

\* getAllProducts(filters): the filters are applied one after the other
getAllProducts(st, h, filters) ==
    LET all == Values(st, h)
        byCategory ==
            IF Supplied(filters, "category") /\ Truthy(filters.category)
            THEN SelectSeq(all, LAMBDA p :
                     includes(toLowerCase(p.category), toLowerCase(filters.category)))
            ELSE all
        byCollection ==
            IF Supplied(filters, "collection") /\ Truthy(filters.collection)
            THEN SelectSeq(byCategory, LAMBDA p : CollectionIncludes(p, filters.collection))
            ELSE byCategory
        byTag ==
            IF Supplied(filters, "tag") /\ Truthy(filters.tag)
            THEN SelectSeq(byCollection, LAMBDA p : SomeTagIncludes(p.tags, filters.tag))
            ELSE byCollection
        byPriceMin ==
            IF Supplied(filters, "priceMin")
            THEN SelectSeq(byTag, LAMBDA p : p.price >= filters.priceMin)
            ELSE byTag
        byPriceMax ==
            IF Supplied(filters, "priceMax")
            THEN SelectSeq(byPriceMin, LAMBDA p : p.price <= filters.priceMax)
            ELSE byPriceMin
        byStock ==
            IF Supplied(filters, "inStock")
            THEN SelectSeq(byPriceMax, LAMBDA p : InStockFilter(p, filters.inStock))
            ELSE byPriceMax
    IN  IF Supplied(filters, "visible")
        THEN SelectSeq(byStock, LAMBDA p : p.isVisible = filters.visible)
        ELSE byStock

\* getLowStockProducts without the test that the stock is positive
getLowStockProducts_IncludesZero(st, h, threshold) ==
    SelectSeq(Values(st, h), LAMBDA p : p.stock <= threshold)

getLowStockProducts(st, h, threshold) ==
    SelectSeq(Values(st, h), LAMBDA p : p.stock <= threshold /\ p.stock > 0)

getOutOfStockProducts(st, h) == SelectSeq(Values(st, h), LAMBDA p : p.stock = 0)

RECURSIVE TotalValue(_)
\* allProducts.reduce((sum, product) => sum + (product.price * product.currentStock), 0)
TotalValue(allProducts) ==
    IF allProducts = <<>> THEN 0
    ELSE Head(allProducts).price * Head(allProducts).currentStock
             + TotalValue(Tail(allProducts))

\* getLowStockAlerts.execute (src/unnamed/part_006:30-74)
getLowStockAlerts(st, h, context) ==
    LET lowStockProducts == getLowStockProducts(st, h, context.threshold)
        outOfStockProducts == IF context.includeOutOfStock THEN getOutOfStockProducts(st, h)
                              ELSE <<>>
        Alert(product, level) ==
            [id |-> product.id, name |-> product.name, currentStock |-> product.stock,
             category |-> product.category, sku |-> product.sku, price |-> product.price,
             alertLevel |-> level]
        allProducts ==
            [i \in DOMAIN lowStockProducts |-> Alert(lowStockProducts[i], "low-stock")]
                \o (IF context.includeOutOfStock
                    THEN [i \in DOMAIN outOfStockProducts |->
                             Alert(outOfStockProducts[i], "out-of-stock")]
                    ELSE <<>>)
    IN  [lowStockProducts |-> allProducts,
         summary |-> [totalLowStock |-> Len(lowStockProducts),
                      totalOutOfStock |-> Len(outOfStockProducts),
                      criticalItems |-> Len(SelectSeq(allProducts,
                                                      LAMBDA p : p.currentStock <= 3)),
                      totalValue |-> TotalValue(allProducts)]]

StockOperations == {"add", "subtract", "set"}

\* NewStock with subtract not floored at 0 (the Math.max forgotten)
NewStock_NoFloor(stock, operation, quantity) ==
    CASE operation = "add" -> stock + quantity
      [] operation = "subtract" -> stock - quantity
      [] operation = "set" -> Max(0, quantity)

\* NewStock with set storing the quantity as given
NewStock_SetUnclamped(stock, operation, quantity) ==
    CASE operation = "add" -> stock + quantity
      [] operation = "subtract" -> Max(0, stock - quantity)
      [] operation = "set" -> quantity

\* the switch of updateStock: the new stock, for one of the three operations
NewStock(stock, operation, quantity) ==
    CASE operation = "add" -> stock + quantity
      [] operation = "subtract" -> Max(0, stock - quantity)
      [] operation = "set" -> Max(0, quantity)

\* updateStock mutates the stored object in place: only the heap changes
updateStock(st, h, productId, operation, quantity, t) ==
    LET r == getProduct(st, productId) IN
    IF r = 0 THEN [h |-> h, ret |-> FALSE]
    ELSE IF operation \notin StockOperations THEN [h |-> h, ret |-> FALSE]
    ELSE [h |-> [h EXCEPT ![r].stock = NewStock(h[r].stock, operation, quantity),
                          ![r].updatedAt = t],
          ret |-> TRUE]

\* addSale that logs the sale and forgets the stock update
addSale_NoDecrement(st, h, saleData, t, rnd) ==
    LET newSale == [f \in DOMAIN saleData \cup {"id"} |->
                       IF f = "id" THEN GeneratedId("sale", t, rnd) ELSE saleData[f]]
    IN  [st |-> [st EXCEPT !.sales = Append(@, newSale)], h |-> h, ret |-> newSale]

\* addSale that logs the sale only when the product exists
addSale_SkipsUnknown(st, h, saleData, t, rnd) ==
    LET newSale == [f \in DOMAIN saleData \cup {"id"} |->
                       IF f = "id" THEN GeneratedId("sale", t, rnd) ELSE saleData[f]]
        st2 == IF getProduct(st, saleData.productId) = 0 THEN st
               ELSE [st EXCEPT !.sales = Append(@, newSale)]
    IN  [st |-> st2,
         h |-> updateStock(st2, h, saleData.productId, "subtract", saleData.quantity, t).h,
         ret |-> newSale]

addSale(st, h, saleData, t, rnd) ==
    LET newSale == [f \in DOMAIN saleData \cup {"id"} |->
                       IF f = "id" THEN GeneratedId("sale", t, rnd) ELSE saleData[f]]
        st2 == [st EXCEPT !.sales = Append(@, newSale)]
    IN  [st |-> st2,
         h |-> updateStock(st2, h, saleData.productId, "subtract", saleData.quantity, t).h,
         ret |-> newSale]

\* getSalesByDateRange with the end bound exclusive
getSalesByDateRange_ExclusiveEnd(st, start, end) ==
    SelectSeq(st.sales, LAMBDA sale : sale.timestamp >= start /\ sale.timestamp < end)

getSalesByDateRange(st, start, end) ==
    SelectSeq(st.sales, LAMBDA sale : sale.timestamp >= start /\ sale.timestamp <= end)

\* exportData: the array of the stored objects (references) and a copy of the log
exportData(st) ==
    [products |-> [i \in DOMAIN st.products |-> st.products[i].ref], sales |-> st.sales]

\* importData that clears the sale log and does not reload it
importData_NoSales(h, data) == RegisterAll(EmptyStore, h, data.products)

importData(h, data) ==
    [RegisterAll(EmptyStore, h, data.products) EXCEPT !.sales = data.sales]

reset(h, sales) == initializeWithSampleData(EmptyStore, h, sales)

(***************************************************************************)
(* The calendar of Date, for the instants of 2024 and 2025 (UTC).          *)
(***************************************************************************)
\* the days from 2024-01-01 to the first of each month of 2024 and 2025 and to 2026-01-01
MonthStartDays ==
    << 0, 31, 60, 91, 121, 152, 182, 213, 244, 274, 305, 335,
       366, 397, 425, 456, 486, 517, 547, 578, 609, 639, 670, 700, 731 >>

\* the months from January 2024 to the month of the instant t
MonthIndex(t) ==
    CHOOSE k \in 0..23 : Day(MonthStartDays[k + 1]) <= t /\ t < Day(MonthStartDays[k + 2])

getFullYear(t) == 2024 + (MonthIndex(t) \div 12)

getMonth(t) == MonthIndex(t) % 12

getDate(t) == (t \div 24) - MonthStartDays[MonthIndex(t) + 1] + 1

\* Date.prototype.getDay, 0 being Sunday: 2024-01-01 is a Monday
getDay(t) == ((t \div 24) + 1) % 7

\* new Date(year, month, date) for month in 0..12 and any date: days past the end
\* of the month run into the next, date 0 is the last day of the month before
NewDate(year, month, date) == Day(MonthStartDays[(year - 2024) * 12 + month + 1] + date - 1)

(***************************************************************************)
(* getSalesAnalytics (store.ts:382-462).  A JavaScript number obtained by  *)
(* a division is kept as the fraction num/den; den = 0 is the NaN or       *)
(* Infinity a division by zero yields.                                     *)
(***************************************************************************)
Fraction(n, d) == [num |-> n, den |-> d]

RECURSIVE SumAmount(_)
\* sales.reduce((sum, sale) => sum + sale.totalAmount, 0)
SumAmount(sales) ==
    IF sales = <<>> THEN 0 ELSE Head(sales).totalAmount + SumAmount(Tail(sales))

\* avgOrderValue computed without the guard on totalOrders
AvgOrderValue_Unguarded(totalSales, totalOrders) == Fraction(totalSales, totalOrders)

\* avgOrderValue = totalOrders > 0 ? totalSales / totalOrders : 0
AvgOrderValue(totalSales, totalOrders) ==
    IF totalOrders > 0 THEN Fraction(totalSales, totalOrders) ELSE Fraction(0, 1)

\* Array.prototype.sort((a, b) => key(b) - key(a)), key[i] being the key of seq[i]:
\* descending and stable, so an element goes after those with a greater key and
\* the earlier ones with its key
SortDescending(seq, key) ==
    LET pos(i) == 1 + Cardinality({j \in DOMAIN seq :
                        \/ key[j] > key[i]
                        \/ key[j] = key[i] /\ j < i})
    IN  [p \in DOMAIN seq |-> seq[CHOOSE i \in DOMAIN seq : pos(i) = p]]

RECURSIVE ProductSales(_)
\* the productSales map of getSalesAnalytics, as entries in first-seen order
ProductSales(sales) ==
    IF sales = <<>> THEN <<>>
    ELSE LET before == ProductSales(SubSeq(sales, 1, Len(sales) - 1))
             sale == sales[Len(sales)]
             hit == {i \in DOMAIN before : before[i].id = sale.productId}
         IN  IF hit # {}
             THEN [i \in DOMAIN before |->
                      IF i \in hit
                      THEN [before[i] EXCEPT !.sales = @ + sale.totalAmount]
                      ELSE before[i]]
             ELSE Append(before, [id |-> sale.productId, name |-> sale.productName,
                                  sales |-> sale.totalAmount])

TopProductsLimit == 5

\* topProducts without the sort: the first entries in first-seen order
TopProducts_FirstSeen(sales) ==
    LET entries == ProductSales(sales)
    IN  SubSeq(entries, 1, IF Len(entries) < TopProductsLimit THEN Len(entries)
                           ELSE TopProductsLimit)

TopProducts(sales) ==
    LET entries == ProductSales(sales)
        sorted == SortDescending(entries, [i \in DOMAIN entries |-> entries[i].sales])
    IN  SubSeq(sorted, 1, IF Len(sorted) < TopProductsLimit THEN Len(sorted)
                          ELSE TopProductsLimit)

\* the category the product had when the module was loaded, for a sample product
CategoryOf_AtLoad(h, r) ==
    LET orig == {k \in SampleRefs : sampleProducts[k].id = h[r].id}
    IN  IF orig # {} THEN sampleProducts[CHOOSE k \in orig : TRUE].category
        ELSE h[r].category

\* product.category of the object the store holds now
CategoryOf(h, r) == h[r].category

RECURSIVE CategoryStats(_, _, _)
\* the categoryStats map of getSalesAnalytics, as entries in first-seen order
CategoryStats(st, h, sales) ==
    IF sales = <<>> THEN <<>>
    ELSE LET before == CategoryStats(st, h, SubSeq(sales, 1, Len(sales) - 1))
             sale == sales[Len(sales)]
             r == getProduct(st, sale.productId)
         IN  IF r = 0 THEN before
             ELSE LET hit == {i \in DOMAIN before : before[i].category = CategoryOf(h, r)}
                  IN  IF hit # {}
                      THEN [i \in DOMAIN before |->
                               IF i \in hit
                               THEN [before[i] EXCEPT !.revenue = @ + sale.totalAmount,
                                                      !.orders = @ + 1]
                               ELSE before[i]]
                      ELSE Append(before, [category |-> CategoryOf(h, r),
                                           revenue |-> sale.totalAmount, orders |-> 1])

\* the sales the revenue of a period is summed over: only those of the range asked
RollupSales_Selected(st, salesData) == salesData

\* the sales the revenue of a period is summed over: this.getSalesByDateRange
\* reads the whole log, whatever salesData holds
RollupSales(st, salesData) == st.sales

\* revenueByPeriod of getSalesAnalytics at the instant t
revenueByPeriod(st, salesData, t) ==
    LET today == NewDate(getFullYear(t), getMonth(t), getDate(t))
        thisWeekStart == today - Day(getDay(today))
        thisMonthStart == NewDate(getFullYear(t), getMonth(t), 1)
        log == [sales |-> RollupSales(st, salesData)]
    IN  [daily |-> SumAmount(getSalesByDateRange(log, today, t)),
         weekly |-> SumAmount(getSalesByDateRange(log, thisWeekStart, t)),
         monthly |-> SumAmount(getSalesByDateRange(log, thisMonthStart, t))]

\* dateRange is <<>> when the argument is omitted, else <<[start, end]>>; t is the
\* instant of the call
getSalesAnalytics(st, h, dateRange, t) ==
    LET salesData == IF dateRange # <<>>
                     THEN getSalesByDateRange(st, dateRange[1].start, dateRange[1].end)
                     ELSE st.sales
        totalSales == SumAmount(salesData)
        totalOrders == Len(salesData)
    IN  [totalSales |-> totalSales,
         totalOrders |-> totalOrders,
         avgOrderValue |-> AvgOrderValue(totalSales, totalOrders),
         topProducts |-> TopProducts(salesData),
         revenueByPeriod |-> revenueByPeriod(st, salesData, t),
         categoryPerformance |->
             LET stats == CategoryStats(st, h, salesData)
             IN  SortDescending(stats, [i \in DOMAIN stats |-> stats[i].revenue])]

RECURSIVE QuantitySold(_)
\* the productSales map of getTopSellingProducts, as entries in first-seen order
QuantitySold(sales) ==
    IF sales = <<>> THEN <<>>
    ELSE LET before == QuantitySold(SubSeq(sales, 1, Len(sales) - 1))
             sale == sales[Len(sales)]
             hit == {i \in DOMAIN before : before[i].id = sale.productId}
         IN  IF hit # {}
             THEN [i \in DOMAIN before |->
                      IF i \in hit
                      THEN [before[i] EXCEPT !.quantity = @ + sale.quantity,
                                             !.revenue = @ + sale.totalAmount]
                      ELSE before[i]]
             ELSE Append(before, [id |-> sale.productId, quantity |-> sale.quantity,
                                  revenue |-> sale.totalAmount])

\* Array.prototype.slice(0, limit) for limit >= 0
SliceTo(seq, limit) == SubSeq(seq, 1, IF Len(seq) < limit THEN Len(seq) ELSE limit)

\* the entries sold in the period (<<>>: every sale), best first by the keys given
TopSellers(st, h, limit, period, entries, key) ==
    LET top == SliceTo(SortDescending(entries, key), limit)
        resolved == [i \in DOMAIN top |-> getProduct(st, top[i].id)]
        found == SelectSeq(resolved, LAMBDA r : r # 0)
    IN  [i \in DOMAIN found |-> h[found[i]]]

\* the sales getTopSellingProducts and getSalesAnalytics look at
SalesIn(st, period) ==
    IF period # <<>> THEN getSalesByDateRange(st, period[1].start, period[1].end)
    ELSE st.sales

\* getTopSellingProducts ordering the products by revenue
getTopSellingProducts_ByRevenue(st, h, limit, period) ==
    LET entries == QuantitySold(SalesIn(st, period))
    IN  TopSellers(st, h, limit, period, entries,
                   [i \in DOMAIN entries |-> entries[i].revenue])

\* getTopSellingProducts(limit, period): period is <<>> when omitted
getTopSellingProducts(st, h, limit, period) ==
    LET entries == QuantitySold(SalesIn(st, period))
    IN  TopSellers(st, h, limit, period, entries,
                   [i \in DOMAIN entries |-> entries[i].quantity])

\* getCategories() / getCollections(): the tracking sets
getCategories(st) == st.categories

getCollections(st) == st.collections

(***************************************************************************)
(* The inputs callers supply.                                              *)
(***************************************************************************)
\* Omit<Product, 'id' | 'createdAt' | 'updatedAt'> values
ProductInputs ==
    { [name |-> <<"R","e","d"," ","T","-","S","h","i","r","t">>, price |-> 2199,
       category |-> <<"C","l","o","t","h","i","n","g">>,
       collection |-> <<"S","u","m","m","e","r"," ","C","o","l","l","e","c","t","i","o","n">>,
       stock |-> 3, isVisible |-> TRUE, tags |-> << <<"r","e","d">> >>,
       sku |-> <<"R","T","S","-","0","0","7">>],
      [name |-> <<"S","h","i","r","t">>, price |-> 999,
       category |-> <<"B","a","s","i","c","s">>,
       collection |-> undefined,
       stock |-> 0, isVisible |-> FALSE, tags |-> <<>>,
       sku |-> undefined],
      [name |-> <<"B","l","u","e"," ","T","-","S","h","i","r","t">>, price |-> 1999,
       category |-> <<"C","l","o","t","h","i","n","g">>,
       collection |-> <<"E","s","s","e","n","t","i","a","l","s">>,
       stock |-> 12, isVisible |-> TRUE, tags |-> << <<"b","l","u","e">> >>,
       sku |-> <<"B","T","S","-","0","0","2">>],
      [name |-> <<"G","a","r","d","e","n"," ","G","n","o","m","e">>, price |-> 1500,
       category |-> <<"H","o","m","e"," ","&"," ","G","a","r","d","e","n">>,
       collection |-> <<>>,
       stock |-> 1, isVisible |-> TRUE, tags |-> << <<"g","n","o","m","e">> >>,
       sku |-> <<"B","T","S","-","0","0","1">>] }

\* the two of them the store's addProduct is called with directly
StoreProductInputs == {p \in ProductInputs : p.stock \in {0, 3}}

\* Partial<Omit<Product, 'id' | 'createdAt'>> values
UpdateInputs ==
    { [stock |-> 7],
      [category |-> <<"O","u","t","d","o","o","r">>, collection |-> undefined],
      [name |-> <<"B","l","u","e"," ","T","e","e">>, sku |-> <<"L","J","-","0","0","2">>] }

\* the ids callers name: one of the sample products (Winter Scarf), an id that never existed,
\* and every generated id now stored
MissingId == LitId(99999)

TargetIds ==
    {LitId(12349), MissingId}
        \cup {store.products[i].key : i \in {j \in DOMAIN store.products :
                                                 store.products[j].key[1] = "prod"}}

Quantities == {-3, 9}

SaleQuantities == {2, 5}

Rnd == 0..(MaxRnd - 1)

\* the time the module was loaded, which the sample sales are dated from
LoadTime == sampleSales[1].timestamp + 24

\* Omit<Sale, 'id'> values for a sale of the product named by productId
SaleInputs ==
    { [productId |-> id,
       productName |-> IF getProduct(store, id) # 0 THEN heap[getProduct(store, id)].name
                       ELSE <<"G","o","n","e">>,
       quantity |-> q, unitPrice |-> 1000, totalAmount |-> 1000 * q,
       customerEmail |-> <<"j","o","h","n","@","e","x","a","m","p","l","e",".","c","o","m">>,
       paymentMethod |-> <<"p","a","y","p","a","l">>,
       timestamp |-> t]
      : id \in TargetIds, q \in SaleQuantities, t \in {now} }

\* DateRange values: both bounds on a sale's timestamp; no sale inside; every sale;
\* start later than end
DateRanges ==
    { [start |-> LoadTime - 24, end |-> LoadTime - 2],
      [start |-> LoadTime - 23, end |-> LoadTime - 3],
      [start |-> LoadTime - 7 * 24, end |-> LoadTime + MaxTicks],
      [start |-> LoadTime, end |-> LoadTime - 24] }

(***************************************************************************)
(* State.                                                                  *)
(***************************************************************************)
\* the references some root still holds; any other object is garbage
Live(st, inst, snap) ==
    SampleRefs
        \cup {st.products[i].ref : i \in DOMAIN st.products}
        \cup UNION {{inst[k].products[i].ref : i \in DOMAIN inst[k].products} : k \in DOMAIN inst}
        \cup UNION {Range(snap[k].products) : k \in DOMAIN snap}

Collect(h, st, inst, snap) == [r \in DOMAIN h \cap Live(st, inst, snap) |-> h[r]]

Init ==
    /\ now \in StartTimes
    /\ sampleSales = SampleSalesAt(now)
    /\ heap = [r \in SampleRefs |-> sampleProducts[r]]
    /\ store = initializeWithSampleData(EmptyStore, heap, sampleSales)
    /\ instance = <<>>
    /\ snapshot = <<>>
    /\ ops = 0
    /\ ret = [op |-> "none", args |-> <<>>, value |-> <<>>]

(***************************************************************************)
(* Calls on ecommerceStore.                                                *)
(***************************************************************************)
AddProductCall(productData, rnd) ==
    LET res == addProduct(store, heap, productData, now, rnd) IN
    /\ store' = res.st
    /\ heap' = Collect(res.h, res.st, instance, snapshot)
    /\ ret' = [op |-> "addProduct", args |-> productData, value |-> res.h[res.ref]]
    /\ ops' = ops + 1
    /\ UNCHANGED <<instance, sampleSales, snapshot, now>>

UpdateProductCall(id, updates) ==
    LET res == updateProduct(store, heap, id, updates, now) IN
    /\ store' = res.st
    /\ heap' = Collect(res.h, res.st, instance, snapshot)
    /\ ret' = [op |-> "updateProduct", args |-> [id |-> id, updates |-> updates],
               value |-> IF res.ref = 0 THEN <<>> ELSE <<res.h[res.ref]>>]
    /\ ops' = ops + 1
    /\ UNCHANGED <<instance, sampleSales, snapshot, now>>

DeleteProductCall(id) ==
    LET res == deleteProduct(store, id) IN
    /\ store' = res.st
    /\ heap' = Collect(heap, res.st, instance, snapshot)
    /\ ret' = [op |-> "deleteProduct", args |-> id, value |-> res.ret]
    /\ ops' = ops + 1
    /\ UNCHANGED <<instance, sampleSales, snapshot, now>>

UpdateStockCall(id, operation, quantity) ==
    LET res == updateStock(store, heap, id, operation, quantity, now) IN
    /\ heap' = res.h
    /\ ret' = [op |-> "updateStock",
               args |-> [id |-> id, operation |-> operation, quantity |-> quantity],
               value |-> res.ret]
    /\ ops' = ops + 1
    /\ UNCHANGED <<store, instance, sampleSales, snapshot, now>>

AddSaleCall(saleData, rnd) ==
    LET res == addSale(store, heap, saleData, now, rnd) IN
    /\ store' = res.st
    /\ heap' = res.h
    /\ ret' = [op |-> "addSale", args |-> saleData, value |-> res.ret]
    /\ ops' = ops + 1
    /\ UNCHANGED <<instance, sampleSales, snapshot, now>>

\* exportData(); the caller keeps the result, and `seen` records the field values
\* the exported products have at that instant (what the caller reads in it then)
ExportDataCall ==
    /\ snapshot' = <<[products |-> exportData(store).products,
                      sales |-> exportData(store).sales,
                      seen |-> Values(store, heap)]>>
    /\ ret' = [op |-> "exportData", args |-> <<>>, value |-> <<>>]
    /\ ops' = ops + 1
    /\ UNCHANGED <<heap, store, instance, sampleSales, now>>

\* importData of the snapshot the caller kept
ImportDataCall ==
    /\ snapshot # <<>>
    /\ store' = importData(heap, snapshot[1])
    /\ heap' = Collect(heap, store', instance, snapshot)
    /\ ret' = [op |-> "importData", args |-> <<>>, value |-> <<>>]
    /\ ops' = ops + 1
    /\ UNCHANGED <<instance, sampleSales, snapshot, now>>

\* importData(exportData()) in one step, the snapshot not kept
RoundTripCall ==
    /\ store' = importData(heap, exportData(store))
    /\ heap' = Collect(heap, store', instance, snapshot)
    /\ ret' = [op |-> "roundTrip", args |-> <<>>, value |-> <<>>]
    /\ ops' = ops + 1
    /\ UNCHANGED <<instance, sampleSales, snapshot, now>>

ResetCall ==
    /\ store' = reset(heap, sampleSales)
    /\ heap' = Collect(heap, store', instance, snapshot)
    /\ ret' = [op |-> "reset", args |-> <<>>, value |-> <<>>]
    /\ ops' = ops + 1
    /\ UNCHANGED <<instance, sampleSales, snapshot, now>>

\* the clock advances between two calls
Tick ==
    /\ now - LoadTime < MaxTicks
    /\ now' = now + 1
    /\ UNCHANGED <<heap, store, instance, sampleSales, snapshot, ops, ret>>

(***************************************************************************)
(* The store's interface, called with the inputs its contract allows:      *)
(* updateStock add with a quantity >= 0, any integer for subtract and set. *)
(***************************************************************************)
AddProduct == \E productData \in StoreProductInputs, rnd \in Rnd : AddProductCall(productData, rnd)

UpdateProduct == \E id \in TargetIds, updates \in UpdateInputs : UpdateProductCall(id, updates)

DeleteProduct == \E id \in TargetIds : DeleteProductCall(id)

UpdateStock ==
    \E id \in TargetIds, operation \in StockOperations \cup {"multiply"}, q \in Quantities :
        /\ operation = "add" => q >= 0
        /\ UpdateStockCall(id, operation, q)

AddSale == \E saleData \in SaleInputs, rnd \in Rnd : AddSaleCall(saleData, rnd)

Next ==
    \/ ops < MaxOps /\ AddProduct
    \/ ops < MaxOps /\ UpdateProduct
    \/ ops < MaxOps /\ DeleteProduct
    \/ ops < MaxOps /\ UpdateStock
    \/ ops < MaxOps /\ AddSale
    \/ ops < MaxOps /\ ExportDataCall
    \/ ops < MaxOps /\ ImportDataCall
    \/ ops < MaxOps /\ RoundTripCall
    \/ ops < MaxOps /\ ResetCall
    \/ Tick

Spec == Init /\ [][Next]_vars

(***************************************************************************)
(* The same interface with updateStock called with any integer quantity.   *)
(***************************************************************************)
UpdateStockAnyQuantity ==
    \E id \in TargetIds, operation \in StockOperations \cup {"multiply"}, q \in Quantities :
        UpdateStockCall(id, operation, q)

NextAnyQuantity ==
    \/ ops < MaxOps /\ AddProduct
    \/ ops < MaxOps /\ UpdateProduct
    \/ ops < MaxOps /\ DeleteProduct
    \/ ops < MaxOps /\ UpdateStockAnyQuantity
    \/ ops < MaxOps /\ AddSale
    \/ ops < MaxOps /\ ResetCall
    \/ Tick

SpecAnyQuantity == Init /\ [][NextAnyQuantity]_vars

(***************************************************************************)
(* The sales queries, asked after a few calls that change what they read.  *)
(***************************************************************************)
MaxOpsBeforeQuery == 2   \* mutating calls per behaviour of SpecQueries

\* importData of data the caller built: no product, no sale
ImportEmptyCall ==
    /\ store' = importData(heap, [products |-> <<>>, sales |-> <<>>])
    /\ heap' = Collect(heap, store', instance, snapshot)
    /\ ret' = [op |-> "importData", args |-> <<>>, value |-> <<>>]
    /\ ops' = ops + 1
    /\ UNCHANGED <<instance, sampleSales, snapshot, now>>

GetSalesByDateRangeCall(range) ==
    /\ ret' = [op |-> "getSalesByDateRange", args |-> range,
               value |-> getSalesByDateRange(store, range.start, range.end)]
    /\ UNCHANGED <<heap, store, instance, sampleSales, snapshot, now, ops>>

GetSalesAnalyticsCall(dateRange) ==
    /\ ret' = [op |-> "getSalesAnalytics", args |-> dateRange,
               value |-> getSalesAnalytics(store, heap, dateRange, now)]
    /\ UNCHANGED <<heap, store, instance, sampleSales, snapshot, now, ops>>

GetSalesByDateRange == \E range \in DateRanges : GetSalesByDateRangeCall(range)

GetSalesAnalytics ==
    \E dateRange \in {<<>>} \cup {<<range>> : range \in DateRanges} :
        GetSalesAnalyticsCall(dateRange)

NextQueries ==
    \/ ops < MaxOpsBeforeQuery /\ AddSale
    \/ ops < MaxOpsBeforeQuery /\ UpdateProduct
    \/ ops < MaxOpsBeforeQuery /\ DeleteProduct
    \/ ops < MaxOpsBeforeQuery /\ ImportEmptyCall
    \/ GetSalesByDateRange
    \/ GetSalesAnalytics
    \/ Tick

SpecQueries == Init /\ [][NextQueries]_vars

(***************************************************************************)
(* getSalesAnalytics asked after sales of several products, some with      *)
(* equal revenue, so that more than TopProductsLimit products compete.     *)
(***************************************************************************)
MaxRankOps == 3    \* sales logged before the analytics are asked

\* sales of one unit of a product that has no sample sale (two stored ones and
\* one unknown to the store) or of Winter Scarf, for the amount the sample sales
\* of Winter Scarf or of Running Shoes add up to
RankSaleInputs ==
    { [productId |-> id,
       productName |-> IF getProduct(store, id) # 0 THEN heap[getProduct(store, id)].name
                       ELSE <<"G","o","n","e">>,
       quantity |-> 1, unitPrice |-> amount, totalAmount |-> amount,
       customerEmail |-> <<"j","o","h","n","@","e","x","a","m","p","l","e",".","c","o","m">>,
       paymentMethod |-> <<"p","a","y","p","a","l">>,
       timestamp |-> now]
      : id \in {LitId(12347), LitId(12350), LitId(12349), MissingId},
        amount \in {6998, 12999} }

AddRankSale == \E saleData \in RankSaleInputs, rnd \in Rnd : AddSaleCall(saleData, rnd)

NextRanking ==
    \/ ops < MaxRankOps /\ AddRankSale
    \/ ret.op # "getSalesAnalytics" /\ GetSalesAnalytics
    \/ Tick

SpecRanking == Init /\ [][NextRanking]_vars

(***************************************************************************)
(* The catalogue queries (getAllProducts, getProductByName,                *)
(* getTopSellingProducts), asked between calls of the five methods that    *)
(* change products and sales one at a time.                                *)
(***************************************************************************)
MaxCatalogOps == 2   \* mutating calls per behaviour of SpecCatalog

\* the ids the catalogue's callers name: those of TargetIds and Blue T-Shirt's
CatalogIds == TargetIds \cup {LitId(12345)}

\* ProductFilters values; <<>> is no filter at all
FilterInputs ==
    { <<>>,
      [category |-> <<"c","l","o","t","h">>, inStock |-> TRUE],
      [category |-> <<"C","L","O","T","H">>, visible |-> FALSE],
      [category |-> <<>>, collection |-> <<>>],
      [collection |-> <<"s","u","m","m","e","r">>],
      [tag |-> <<"S","h","i","r","t">>],
      [tag |-> <<"r","e","d">>, priceMax |-> 2199],
      [priceMin |-> 1999, priceMax |-> 3499],
      [priceMin |-> 0, inStock |-> FALSE],
      [inStock |-> TRUE],
      [inStock |-> FALSE],
      [visible |-> TRUE],
      [category |-> <<"B","a","s","i","c","s">>, inStock |-> TRUE, visible |-> FALSE],
      [category |-> <<"C","l","o","t","h","i","n","g">>,
       collection |-> <<"C","o","l","l","e","c","t","i","o","n">>,
       tag |-> <<"t","-">>, priceMin |-> 1000, priceMax |-> 2199,
       inStock |-> TRUE, visible |-> TRUE] }

\* name fragments
NameFragments ==
    { <<"s","h","i","r","t">>, <<"T","-","S","H","I","R","T">>, <<"R","e","d">>,
      <<"n","o","n","e">>, <<>> }

\* limit arguments of getTopSellingProducts
Limits == {0, 2, 5}

\* period arguments: omitted, the day before the load, a range holding no sale
Periods ==
    { <<>>,
      <<[start |-> LoadTime - 24, end |-> LoadTime + MaxTicks]>>,
      <<[start |-> LoadTime - 23, end |-> LoadTime - 3]>> }

GetAllProductsCall(filters) ==
    /\ ret' = [op |-> "getAllProducts", args |-> filters,
               value |-> getAllProducts(store, heap, filters)]
    /\ UNCHANGED <<heap, store, instance, sampleSales, snapshot, now, ops>>

\* value: <<>> for undefined, else <<product>>
GetProductByNameCall(name) ==
    LET r == getProductByName(store, heap, name) IN
    /\ ret' = [op |-> "getProductByName", args |-> name,
               value |-> IF r = 0 THEN <<>> ELSE <<heap[r]>>]
    /\ UNCHANGED <<heap, store, instance, sampleSales, snapshot, now, ops>>

GetTopSellingProductsCall(limit, period) ==
    /\ ret' = [op |-> "getTopSellingProducts", args |-> [limit |-> limit, period |-> period],
               value |-> getTopSellingProducts(store, heap, limit, period)]
    /\ UNCHANGED <<heap, store, instance, sampleSales, snapshot, now, ops>>

UpdateCatalogProduct ==
    \E id \in CatalogIds, updates \in UpdateInputs : UpdateProductCall(id, updates)

DeleteCatalogProduct == \E id \in CatalogIds : DeleteProductCall(id)

UpdateCatalogStock ==
    \E id \in CatalogIds, operation \in StockOperations, q \in Quantities :
        /\ operation = "add" => q >= 0
        /\ UpdateStockCall(id, operation, q)

GetAllProducts == \E filters \in FilterInputs : GetAllProductsCall(filters)

GetProductByName == \E name \in NameFragments : GetProductByNameCall(name)

GetTopSellingProducts ==
    \E limit \in Limits, period \in Periods : GetTopSellingProductsCall(limit, period)

\* the context of getLowStockAlerts once the schema's defaults are applied
GetLowStockAlerts ==
    \E threshold \in {0, 5, 10, 30}, includeOutOfStock \in BOOLEAN :
        LET context == [threshold |-> threshold, includeOutOfStock |-> includeOutOfStock] IN
        /\ ret' = [op |-> "getLowStockAlerts", args |-> context,
                   value |-> getLowStockAlerts(store, heap, context)]
        /\ UNCHANGED <<heap, store, instance, sampleSales, snapshot, now, ops>>

\* the last step was not a query: a query changes nothing a later query reads, so
\* the queries are asked of the states the mutating calls and the clock produce
AfterChange ==
    ret.op \notin {"getAllProducts", "getProductByName", "getTopSellingProducts",
                   "getLowStockAlerts"}

NextCatalog ==
    \/ ops < MaxCatalogOps /\ AddProduct
    \/ ops < MaxCatalogOps /\ UpdateCatalogProduct
    \/ ops < MaxCatalogOps /\ DeleteCatalogProduct
    \/ ops < MaxCatalogOps /\ UpdateCatalogStock
    \/ ops < MaxCatalogOps /\ AddSale
    \/ AfterChange /\ GetAllProducts
    \/ AfterChange /\ GetProductByName
    \/ AfterChange /\ GetTopSellingProducts
    \/ AfterChange /\ GetLowStockAlerts
    \/ Tick

SpecCatalog == Init /\ [][NextCatalog]_vars

(***************************************************************************)
(* The tools (src/src/mastra/tools, src/unnamed/part_005), which call      *)
(* ecommerceStore.  A tool's execute has no await inside: it runs as one   *)
(* step.  ret'.value.error names the error a tool throws.                  *)
(***************************************************************************)
MaxToolOps == 2   \* tool and seed calls per behaviour of SpecTools

\* addNewProduct.execute
AddNewProductTool(productData, rnd) ==
    LET bySku == IF Truthy(productData.sku)
                 THEN getProductBySku(store, heap, productData.sku) ELSE 0
        byName == getProductByName(store, heap, productData.name)
        res == addProduct(store, heap, productData, now, rnd)
    IN  /\ ops' = ops + 1
        /\ UNCHANGED <<instance, sampleSales, snapshot, now>>
        /\ IF bySku # 0
           THEN /\ ret' = [op |-> "addNewProduct", args |-> productData,
                           value |-> [success |-> FALSE, error |-> "DuplicateSKU"]]
                /\ UNCHANGED <<store, heap>>
           ELSE IF byName # 0
           THEN /\ ret' = [op |-> "addNewProduct", args |-> productData,
                           value |-> [success |-> FALSE, error |-> "DuplicateName"]]
                /\ UNCHANGED <<store, heap>>
           ELSE /\ store' = res.st
                /\ heap' = Collect(res.h, res.st, instance, snapshot)
                /\ ret' = [op |-> "addNewProduct", args |-> productData,
                           value |-> [success |-> TRUE, productId |-> res.h[res.ref].id,
                                      product |-> res.h[res.ref]]]

\* updateProduct.execute (the tool): its schema admits no sku, stock or collection
ToolUpdateInputs ==
    { [category |-> <<"O","u","t","d","o","o","r">>],
      [name |-> <<"B","l","u","e"," ","T","e","e">>, isVisible |-> FALSE] }

UpdateProductTool(id, updates) ==
    LET res == updateProduct(store, heap, id, updates, now) IN
    /\ ops' = ops + 1
    /\ UNCHANGED <<instance, sampleSales, snapshot, now>>
    /\ IF getProduct(store, id) = 0
       THEN /\ ret' = [op |-> "updateProductTool", args |-> [id |-> id, updates |-> updates],
                       value |-> [success |-> FALSE]]
            /\ UNCHANGED <<store, heap>>
       ELSE /\ store' = res.st
            /\ heap' = Collect(res.h, res.st, instance, snapshot)
            /\ ret' = [op |-> "updateProductTool", args |-> [id |-> id, updates |-> updates],
                       value |-> [success |-> TRUE, product |-> res.h[res.ref]]]

\* toggleVisibility.execute; visible is <<>> when the argument is omitted
ToggleVisibilityTool(id, visible) ==
    LET current == getProduct(store, id)
        newVisibility == IF visible # <<>> THEN visible[1] ELSE ~heap[current].isVisible
        res == updateProduct(store, heap, id, [isVisible |-> newVisibility], now)
    IN  /\ ops' = ops + 1
        /\ UNCHANGED <<instance, sampleSales, snapshot, now>>
        /\ IF current = 0
           THEN /\ ret' = [op |-> "toggleVisibility", args |-> [id |-> id, visible |-> visible],
                           value |-> [success |-> FALSE]]
                /\ UNCHANGED <<store, heap>>
           ELSE /\ store' = res.st
                /\ heap' = Collect(res.h, res.st, instance, snapshot)
                /\ ret' = [op |-> "toggleVisibility", args |-> [id |-> id, visible |-> visible],
                           value |-> [success |-> TRUE, isVisible |-> res.h[res.ref].isVisible]]

\* the product lookup matching a SKU without regard to letter case
Resolve_SkuIgnoresCase(st, h, identifier, identifierType) ==
    CASE identifierType = "id" -> getProduct(st, identifier)
      [] identifierType = "sku" ->
            FirstMatch(st.products,
                       {i \in DOMAIN st.products :
                           toLowerCase(h[st.products[i].ref].sku) = toLowerCase(identifier)})
      [] OTHER -> getProductByName(st, h, identifier)

\* the switch on identifierType that updateInventory and getProduct (the tool) share
Resolve(st, h, identifier, identifierType) ==
    CASE identifierType = "id" -> getProduct(st, identifier)
      [] identifierType = "sku" -> getProductBySku(st, h, identifier)
      [] OTHER -> getProductByName(st, h, identifier)

\* updateInventory.execute
UpdateInventoryTool(identifier, identifierType, operation, quantity) ==
    LET product == Resolve(store, heap, identifier, identifierType)
        args == [productIdentifier |-> identifier, identifierType |-> identifierType,
                 operation |-> operation, quantity |-> quantity]
        previousStock == heap[product].stock
        res == updateStock(store, heap, heap[product].id, operation, quantity, now)
        updatedProduct == getProduct(store, heap[product].id)
        newStock == IF updatedProduct # 0 /\ res.h[updatedProduct].stock # 0
                    THEN res.h[updatedProduct].stock ELSE 0
    IN  /\ ops' = ops + 1
        /\ UNCHANGED <<store, instance, sampleSales, snapshot, now>>
        /\ IF product = 0
           THEN /\ ret' = [op |-> "updateInventory", args |-> args,
                           value |-> [success |-> FALSE, error |-> "NotFound"]]
                /\ UNCHANGED heap
           ELSE IF ~res.ret
           THEN /\ ret' = [op |-> "updateInventory", args |-> args,
                           value |-> [success |-> FALSE, error |-> "Failed"]]
                /\ heap' = res.h
           ELSE /\ heap' = res.h
                /\ ret' = [op |-> "updateInventory", args |-> args,
                           value |-> [success |-> TRUE, productId |-> heap[product].id,
                                      previousStock |-> previousStock,
                                      newStock |-> newStock]]

\* what callers pass as productIdentifier, by identifierType
Identifiers ==
    [id |-> TargetIds,
     name |-> {<<"s","h","i","r","t">>, <<"W","i","n","t","e","r"," ","S","c","a","r","f">>,
               <<"n","o","n","e">>},
     sku |-> {<<"W","S","-","0","0","5">>, <<"w","s","-","0","0","5">>}]

\* the quantities the updateInventory schema admits (quantity >= 0)
ToolQuantities == {0, 9}

AddNewProduct == \E productData \in ProductInputs, rnd \in Rnd : AddNewProductTool(productData, rnd)

UpdateProductByTool ==
    \E id \in TargetIds, updates \in ToolUpdateInputs : UpdateProductTool(id, updates)

ToggleVisibility ==
    \E id \in TargetIds, visible \in {<<>>, <<TRUE>>, <<FALSE>>} : ToggleVisibilityTool(id, visible)

UpdateInventory ==
    \E identifierType \in DOMAIN Identifiers :
        \E identifier \in Identifiers[identifierType],
           operation \in StockOperations, quantity \in ToolQuantities :
            UpdateInventoryTool(identifier, identifierType, operation, quantity)

(***************************************************************************)
(* The seed functions (src/unnamed/part_000:179-450), which work on        *)
(* EcommerceDataStore.getInstance().  The outcomes of Math.random() during *)
(* one run are fixed by a stream number: the k-th id drawn in the run is   *)
(* RandomId(stream, k), and the k-th product or sale takes the choices     *)
(* that k and the stream select.                                           *)
(***************************************************************************)
LowerToUpper == [c \in {UpperToLower[u] : u \in DOMAIN UpperToLower} |->
                    CHOOSE u \in DOMAIN UpperToLower : UpperToLower[u] = c]

\* String.prototype.toUpperCase
toUpperCase(s) ==
    [i \in 1..Len(s) |-> IF s[i] \in DOMAIN LowerToUpper THEN LowerToUpper[s[i]] ELSE s[i]]

Digit == <<"0","1","2","3","4","5","6","7","8","9">>

\* Number.prototype.toString for 0 <= n < 100
toString(n) == IF n < 10 THEN <<Digit[n + 1]>> ELSE <<Digit[(n \div 10) + 1], Digit[(n % 10) + 1]>>

RECURSIVE padStart(_, _, _)
\* String.prototype.padStart with a one-character pad
padStart(s, targetLength, pad) ==
    IF Len(s) >= targetLength THEN s ELSE padStart(<<pad>> \o s, targetLength, pad)

\* getInstance(): the singleton, created from the sample data on first use
getInstance(inst, h, sales) ==
    IF inst = <<>> THEN initializeWithSampleData(EmptyStore, h, sales) ELSE inst[1]

RandomId(stream, k) == 1000 * (stream + 1) + k

\* outcomes of the random draws of generateRandomProduct
RandomChoices ==
    << [category |-> <<"E","l","e","c","t","r","o","n","i","c","s">>,
        collection |-> <<"P","r","e","m","i","u","m"," ","L","i","n","e">>,
        brand |-> <<"T","e","c","h","P","r","o">>,
        baseName |-> <<"W","i","r","e","l","e","s","s"," ","M","o","u","s","e">>,
        basePrice |-> 25, stock |-> 5, isVisible |-> TRUE,
        arrival |-> <<"p","o","p","u","l","a","r">>,
        sale |-> <<"r","e","g","u","l","a","r">>],
       [category |-> <<"C","l","o","t","h","i","n","g">>,
        collection |-> <<"B","e","s","t"," ","S","e","l","l","e","r","s">>,
        brand |-> <<"C","o","m","f","o","r","t","W","e","a","r">>,
        baseName |-> <<"C","o","t","t","o","n"," ","T","-","S","h","i","r","t">>,
        basePrice |-> 509, stock |-> 204, isVisible |-> FALSE,
        arrival |-> <<"n","e","w","-","a","r","r","i","v","a","l">>,
        sale |-> <<"s","a","l","e">>] >>

\* generateRandomProduct(id) when the random draws come out as the choice c
generateRandomProduct(id, c) ==
    [name |-> c.brand \o <<" ">> \o c.baseName,
     price |-> 100 * c.basePrice,
     category |-> c.category,
     collection |-> c.collection,
     stock |-> c.stock,
     isVisible |-> c.isVisible,
     tags |-> <<toLowerCase(c.category), toLowerCase(c.brand), c.arrival, c.sale>>,
     sku |-> toUpperCase(c.brand) \o <<"-">> \o padStart(id, 6, "0")]

DayStart(t) == t - (t % 24)

CUSTOMER_NAMES ==
    << <<"J","o","h","n"," ","S","m","i","t","h">>,
       <<"E","m","i","l","y"," ","J","o","h","n","s","o","n">>,
       <<"M","i","c","h","a","e","l"," ","B","r","o","w","n">>,
       <<"S","a","r","a","h"," ","D","a","v","i","s">>,
       <<"D","a","v","i","d"," ","W","i","l","s","o","n">>,
       <<"L","i","s","a"," ","A","n","d","e","r","s","o","n">>,
       <<"J","a","m","e","s"," ","T","a","y","l","o","r">>,
       <<"J","e","s","s","i","c","a"," ","M","o","o","r","e">>,
       <<"R","o","b","e","r","t"," ","J","a","c","k","s","o","n">>,
       <<"A","m","a","n","d","a"," ","W","h","i","t","e">> >>

\* the paymentMethods array of generateRandomSale
paymentMethods ==
    << <<"C","r","e","d","i","t"," ","C","a","r","d">>,
       <<"P","a","y","P","a","l">>,
       <<"B","a","n","k"," ","T","r","a","n","s","f","e","r">>,
       <<"A","p","p","l","e"," ","P","a","y">>,
       <<"G","o","o","g","l","e"," ","P","a","y">> >>

\* String.prototype.replace(from, to) for one-character strings: the first occurrence
replace(s, from, to) ==
    LET hits == {i \in DOMAIN s : s[i] = from}
    IN  IF hits = {} THEN s
        ELSE LET first == CHOOSE i \in hits : \A j \in hits : i <= j
             IN  [i \in DOMAIN s |-> IF i = first THEN to ELSE s[i]]

\* generateRandomSale(products), k-th sale of a run (products is not empty)
generateRandomSale(h, products, stream, k, t) ==
    LET product == h[products[((k + stream) % Len(products)) + 1]]
        quantity == ((k + stream) % 5) + 1
        customerName == CUSTOMER_NAMES[((3 * k + stream) % Len(CUSTOMER_NAMES)) + 1]
        daysAgo == (7 * k + stream) % 90
        paymentMethod == paymentMethods[((2 * k + stream) % Len(paymentMethods)) + 1]
    IN  [productId |-> product.id, productName |-> product.name,
         quantity |-> quantity, unitPrice |-> product.price,
         totalAmount |-> product.price * quantity,
         customerEmail |-> replace(toLowerCase(customerName), " ", ".")
                               \o <<"@","e","x","a","m","p","l","e",".","c","o","m">>,
         paymentMethod |-> paymentMethod,
         timestamp |-> DayStart(t - 24 * daysAgo) + ((k + stream) % 24)]

RECURSIVE SeedProducts(_, _, _, _, _, _, _)
\* the product loop of seedDatabase for i = lo..hi (the range is halved to keep the
\* evaluation shallow); products: the objects created so far
SeedProducts(st, h, products, lo, hi, stream, t) ==
    IF lo > hi THEN [st |-> st, h |-> h, products |-> products]
    ELSE IF lo = hi
    THEN LET c == RandomChoices[((lo + stream) % Len(RandomChoices)) + 1]
             res == addProduct(st, h, generateRandomProduct(toString(lo), c), t,
                               RandomId(stream, lo))
         IN  [st |-> res.st, h |-> res.h, products |-> Append(products, res.ref)]
    ELSE LET mid == (lo + hi) \div 2
             first == SeedProducts(st, h, products, lo, mid, stream, t)
         IN  IF Len(first.products) >= 0    \* the iterations run in order
             THEN SeedProducts(first.st, first.h, first.products, mid + 1, hi, stream, t)
             ELSE first

RECURSIVE SeedSales(_, _, _, _, _, _, _, _)
\* the sale loop of seedDatabase for i = lo..hi; with no product every iteration
\* throws inside its try block and creates nothing
SeedSales(st, h, products, lo, hi, stream, t, created) ==
    IF lo > hi \/ products = <<>> THEN [st |-> st, h |-> h, salesCreated |-> created]
    ELSE IF lo = hi
    THEN LET res == addSale(st, h, generateRandomSale(h, products, stream, lo, t), t,
                            RandomId(stream, lo))
         IN  [st |-> res.st, h |-> res.h, salesCreated |-> created + 1]
    ELSE LET mid == (lo + hi) \div 2
             first == SeedSales(st, h, products, lo, mid, stream, t, created)
         IN  IF first.salesCreated >= 0     \* the iterations run in order
             THEN SeedSales(first.st, first.h, products, mid + 1, hi, stream, t,
                            first.salesCreated)
             ELSE first

\* seedDatabase(options) run on the instance st
seedDatabase(st, h, sales, productCount, salesCount, clearExisting, stream, t) ==
    LET st0 == IF clearExisting THEN reset(h, sales) ELSE st
        p == SeedProducts(st0, h, <<>>, 1, productCount, stream, t)
        q == SeedSales(p.st, p.h, p.products, 1, salesCount, stream, t, 0)
    IN  [st |-> q.st, h |-> q.h,
         ret |-> [productsCreated |-> Len(p.products), salesCreated |-> q.salesCreated,
                  errors |-> salesCount - q.salesCreated]]

demoProducts ==
    << [name |-> <<"T","e","c","h","P","r","o"," ","W","i","r","e","l","e","s","s"," ",
                   "H","e","a","d","p","h","o","n","e","s">>,
        price |-> 19999,
        category |-> <<"E","l","e","c","t","r","o","n","i","c","s">>,
        collection |-> <<"P","r","e","m","i","u","m"," ","L","i","n","e">>,
        stock |-> 25, isVisible |-> TRUE,
        tags |-> << <<"e","l","e","c","t","r","o","n","i","c","s">>, <<"a","u","d","i","o">>,
                    <<"w","i","r","e","l","e","s","s">>, <<"p","r","e","m","i","u","m">> >>,
        sku |-> <<"T","E","C","H","P","R","O","-","0","0","1">>],
       [name |-> <<"C","o","m","f","o","r","t","W","e","a","r"," ","C","o","t","t","o","n",
                   " ","T","-","S","h","i","r","t">>,
        price |-> 2499,
        category |-> <<"C","l","o","t","h","i","n","g">>,
        collection |-> <<"S","p","r","i","n","g"," ","C","o","l","l","e","c","t","i","o","n",
                         " ","2","0","2","5">>,
        stock |-> 100, isVisible |-> TRUE,
        tags |-> << <<"c","l","o","t","h","i","n","g">>, <<"c","o","t","t","o","n">>,
                    <<"c","a","s","u","a","l">>, <<"s","p","r","i","n","g">> >>,
        sku |-> <<"C","O","M","F","O","R","T","-","0","0","1">>],
       [name |-> <<"G","r","e","e","n","L","i","f","e"," ","E","c","o","-","F","r","i","e",
                   "n","d","l","y"," ","W","a","t","e","r"," ","B","o","t","t","l","e">>,
        price |-> 3499,
        category |-> <<"H","e","a","l","t","h"," ","&"," ","B","e","a","u","t","y">>,
        collection |-> <<"E","c","o","-","F","r","i","e","n","d","l","y">>,
        stock |-> 5, isVisible |-> TRUE,
        tags |-> << <<"e","c","o","-","f","r","i","e","n","d","l","y">>,
                    <<"s","u","s","t","a","i","n","a","b","l","e">>,
                    <<"h","y","d","r","a","t","i","o","n">>, <<"s","t","e","e","l">> >>,
        sku |-> <<"G","R","E","E","N","-","0","0","1">>] >>

RECURSIVE AddEach(_, _, _, _, _, _, _)
\* demoProducts.map(productData => store.addProduct(productData)), from index i on
AddEach(st, h, created, i, stream, base, t) ==
    IF i > Len(demoProducts) THEN [st |-> st, h |-> h, products |-> created]
    ELSE LET res == addProduct(st, h, demoProducts[i], t, RandomId(stream, base + i))
         IN  AddEach(res.st, res.h, Append(created, res.ref), i + 1, stream, base, t)

addDemoProducts(st, h, stream, base, t) == AddEach(st, h, <<>>, 1, stream, base, t)

\* addDemoSales(products): two sales, of products[0] and products[1]
addDemoSales(st, h, products, stream, base, t) ==
    LET p0 == h[products[1]]
        p1 == h[products[2]]
        s0 == addSale(st, h, [productId |-> p0.id, productName |-> p0.name, quantity |-> 2,
                              unitPrice |-> p0.price, totalAmount |-> p0.price * 2,
                              customerEmail |-> <<"d","e","m","o",".","c","u","s","t","o","m","e","r","@","e","x","a","m","p","l","e",".","c","o","m">>,
                              paymentMethod |-> <<"C","r","e","d","i","t"," ","C","a","r","d">>,
                              timestamp |-> t - 7 * 24],
                      t, RandomId(stream, base + 1))
        s1 == addSale(s0.st, s0.h,
                      [productId |-> p1.id, productName |-> p1.name, quantity |-> 3,
                       unitPrice |-> p1.price, totalAmount |-> p1.price * 3,
                       customerEmail |-> <<"j","a","n","e",".","d","o","e","@","e","x","a","m","p","l","e",".","c","o","m">>,
                       paymentMethod |-> <<"P","a","y","P","a","l">>,
                       timestamp |-> t - 2 * 24],
                      t, RandomId(stream, base + 2))
    IN  [st |-> s1.st, h |-> s1.h]

QuickSetupProducts == 20

QuickSetupSales == 50

\* seedDatabase with the ids of its k-th product and sale drawn after `base` others
seedDatabaseAfter(st, h, productCount, salesCount, stream, base, t) ==
    LET p == SeedProducts(st, h, <<>>, 1, productCount, stream + base, t)
    IN  SeedSales(p.st, p.h, p.products, 1, salesCount, stream + base, t, 0)

\* quickSetup(): the demo products and sales, then seedDatabase with clearExisting false
quickSetup(st, h, stream, t) ==
    LET d == addDemoProducts(st, h, stream, 0, t)
        e == addDemoSales(d.st, d.h, d.products, stream, 0, t)
    IN  seedDatabaseAfter(e.st, e.h, QuickSetupProducts, QuickSetupSales, stream, MaxRnd, t)

AddDemoProductsCall(stream) ==
    LET res == addDemoProducts(getInstance(instance, heap, sampleSales), heap, stream, 0, now) IN
    /\ instance' = <<res.st>>
    /\ heap' = Collect(res.h, store, instance', snapshot)
    /\ ret' = [op |-> "addDemoProducts", args |-> stream,
               value |-> [i \in DOMAIN res.products |-> res.h[res.products[i]].id]]
    /\ ops' = ops + 1
    /\ UNCHANGED <<store, sampleSales, snapshot, now>>

SeedDatabaseCall(productCount, salesCount, clearExisting, stream) ==
    LET res == seedDatabase(getInstance(instance, heap, sampleSales), heap, sampleSales,
                            productCount, salesCount, clearExisting, stream, now) IN
    /\ instance' = <<res.st>>
    /\ heap' = Collect(res.h, store, instance', snapshot)
    /\ ret' = [op |-> "seedDatabase",
               args |-> [productCount |-> productCount, salesCount |-> salesCount,
                         clearExisting |-> clearExisting],
               value |-> res.ret]
    /\ ops' = ops + 1
    /\ UNCHANGED <<store, sampleSales, snapshot, now>>

QuickSetupCall(stream) ==
    LET res == quickSetup(getInstance(instance, heap, sampleSales), heap, stream, now) IN
    /\ instance' = <<res.st>>
    /\ heap' = Collect(res.h, store, instance', snapshot)
    /\ ret' = [op |-> "quickSetup", args |-> stream, value |-> <<>>]
    /\ ops' = ops + 1
    /\ UNCHANGED <<store, sampleSales, snapshot, now>>

\* the productCount and salesCount options seedDatabase is called with
SeedCounts == {0, 2}

AddDemoProducts == \E stream \in Rnd : AddDemoProductsCall(stream)

SeedDatabase ==
    \E productCount \in SeedCounts, salesCount \in SeedCounts,
       clearExisting \in BOOLEAN, stream \in Rnd :
        SeedDatabaseCall(productCount, salesCount, clearExisting, stream)

QuickSetup == \E stream \in Rnd : QuickSetupCall(stream)

\* getAllProducts.execute (list-all-products.ts:28-32): EcommerceDataStore.getInstance
\* is defined, so the tool reads the instance it returns, created on first use
ListAllProducts ==
    LET inst == getInstance(instance, heap, sampleSales) IN
    /\ instance' = <<inst>>
    /\ ret' = [op |-> "listAllProducts", args |-> <<>>,
               value |-> [products |-> getAllProducts(inst, heap, <<>>)]]
    /\ UNCHANGED <<heap, store, sampleSales, snapshot, now, ops>>

\* getProductsByCollection.execute (src/unnamed/part_004:39-67) with the default
\* limit 50 and offset 0
GetProductsByCollection ==
    \E collection \in {<<"P","r","e","m","i","u","m"," ","L","i","n","e">>, <<"s","u","m","m","e","r"," ","c","o","l","l","e","c","t","i","o","n">>} :
        LET inst == getInstance(instance, heap, sampleSales)
            allProducts == getAllProducts(inst, heap, <<>>)
            filteredProducts ==
                SelectSeq(allProducts, LAMBDA product :
                    /\ Truthy(product.collection)
                    /\ toLowerCase(product.collection) = toLowerCase(collection))
            last == IF Len(filteredProducts) < 50 THEN Len(filteredProducts) ELSE 50
        IN  /\ instance' = <<inst>>
            /\ ret' = [op |-> "getProductsByCollection", args |-> collection,
                       value |-> [products |-> SubSeq(filteredProducts, 1, last),
                                  total |-> Len(filteredProducts),
                                  hasNext |-> 50 < Len(filteredProducts)]]
            /\ UNCHANGED <<heap, store, sampleSales, snapshot, now, ops>>

\* getProductStock.execute (src/unnamed/part_006:98-138), asked for a sample product,
\* a demo product or a seeded product
GetProductStock ==
    \E identifierType \in {"id", "name", "sku"} :
    \E identifier \in
           CASE identifierType = "id" ->
                    {LitId(12349)} \cup (IF instance = <<>> THEN {}
                                         ELSE {instance[1].products[i].key :
                                                   i \in DOMAIN instance[1].products})
             [] identifierType = "name" -> {<<"W","i","n","t","e","r"," ","S","c","a","r","f">>, <<"C","o","t","t","o","n"," ","T","-","S","h","i","r","t">>}
             [] OTHER -> {<<"W","S","-","0","0","5">>, <<"T","E","C","H","P","R","O","-","0","0","1">>} :
        LET product == Resolve(store, heap, identifier, identifierType)
            args == [identifier |-> identifier, identifierType |-> identifierType]
        IN  /\ ret' = [op |-> "getProductStock", args |-> args,
                       value |-> IF product = 0
                                 THEN [threw |-> TRUE, error |-> "Product not found"]
                                 ELSE [threw |-> FALSE,
                                       productId |-> heap[product].id,
                                       productName |-> heap[product].name,
                                       currentStock |-> heap[product].stock,
                                       stockStatus |->
                                           IF heap[product].stock = 0 THEN "out-of-stock"
                                           ELSE IF heap[product].stock <= 10
                                           THEN "low-stock" ELSE "in-stock"]]
            /\ UNCHANGED <<heap, store, instance, sampleSales, snapshot, now, ops>>

\* the last step was not one of the three reading tools, which are run once the
\* calls that change the stores are made
AfterToolChange ==
    ret.op \notin {"listAllProducts", "getProductsByCollection", "getProductStock"}

NextTools ==
    \/ ops < MaxToolOps /\ AddNewProduct
    \/ ops < MaxToolOps /\ UpdateProductByTool
    \/ ops < MaxToolOps /\ ToggleVisibility
    \/ ops < MaxToolOps /\ UpdateInventory
    \/ ops < MaxToolOps /\ AddDemoProducts
    \/ ops < MaxToolOps /\ SeedDatabase
    \/ ops < MaxToolOps /\ QuickSetup
    \/ ops = MaxToolOps /\ AfterToolChange /\ ListAllProducts
    \/ ops = MaxToolOps /\ AfterToolChange /\ GetProductsByCollection
    \/ ops = MaxToolOps /\ AfterToolChange /\ GetProductStock
    \/ Tick

SpecTools == Init /\ [][NextTools]_vars

(***************************************************************************)
(* Executions in flight together.  The process is one thread: a call of an *)
(* async execute runs until its first await, and what follows an await     *)
(* runs as a later job, after any number of steps of other executions.  A  *)
(* batch of calls is started together on ecommerceStore; ret.args[e] is    *)
(* the e-th call, ret.value[e] its position `at` ("called", a position it  *)
(* is suspended at, or "settled") and its result once there is one, and    *)
(* ret.order lists the executions whose body has run to its end.           *)
(***************************************************************************)
MaxExecutions == 3   \* calls in flight together

\* an await between the existence checks of addNewProduct.execute and addProduct
SuspendsAt_AfterCheck(operation) ==
    IF operation = "addNewProduct" THEN {"checked"} ELSE {}

\* a suspension of addSale between the push to the log and updateStock
SuspendsAt_AfterPush(operation) ==
    IF operation = "addSale" THEN {"logged"} ELSE {}

\* the positions inside its body at which the operation is suspended: the execute
\* functions of addNewProduct and updateInventory contain no await, and addSale
\* and updateStock are synchronous methods
SuspendsAt(operation) == {}

\* addNewProduct.execute from the position it is at to its next suspension or end
addNewProductFrom(st, h, productData, state, t, rnd) ==
    LET bySku == IF Truthy(productData.sku)
                 THEN getProductBySku(st, h, productData.sku) ELSE 0
        byName == getProductByName(st, h, productData.name)
        res == addProduct(st, h, productData, t, rnd)
        added == [st |-> res.st, h |-> res.h, at |-> "settled",
                  result |-> <<[success |-> TRUE, productId |-> res.h[res.ref].id]>>]
    IN  IF state.at = "checked" THEN added
        ELSE IF bySku # 0
        THEN [st |-> st, h |-> h, at |-> "settled",
              result |-> <<[success |-> FALSE, error |-> "DuplicateSKU"]>>]
        ELSE IF byName # 0
        THEN [st |-> st, h |-> h, at |-> "settled",
              result |-> <<[success |-> FALSE, error |-> "DuplicateName"]>>]
        ELSE IF "checked" \in SuspendsAt("addNewProduct")
        THEN [st |-> st, h |-> h, at |-> "checked", result |-> <<>>]
        ELSE added

\* updateInventory.execute, which has no position to be suspended at
updateInventoryFrom(st, h, context, state, t) ==
    LET product == Resolve(st, h, context.productIdentifier, context.identifierType)
        previousStock == h[product].stock
        res == updateStock(st, h, h[product].id, context.operation, context.quantity, t)
        updatedProduct == getProduct(st, h[product].id)
        newStock == IF updatedProduct # 0 /\ res.h[updatedProduct].stock # 0
                    THEN res.h[updatedProduct].stock ELSE 0
    IN  IF product = 0
        THEN [st |-> st, h |-> h, at |-> "settled",
              result |-> <<[success |-> FALSE, error |-> "NotFound"]>>]
        ELSE IF ~res.ret
        THEN [st |-> st, h |-> res.h, at |-> "settled",
              result |-> <<[success |-> FALSE, error |-> "Failed"]>>]
        ELSE [st |-> st, h |-> res.h, at |-> "settled",
              result |-> <<[success |-> TRUE, previousStock |-> previousStock,
                            newStock |-> newStock]>>]

\* EcommerceDataStore.addSale from the position it is at: the push to the log, then
\* the stock update
addSaleFrom(st, h, saleData, state, t, rnd) ==
    LET res == addSale(st, h, saleData, t, rnd)
        pushed == addSale_NoDecrement(st, h, saleData, t, rnd)
    IN  IF state.at = "logged"
        THEN [st |-> st,
              h |-> updateStock(st, h, saleData.productId, "subtract", saleData.quantity, t).h,
              at |-> "settled", result |-> state.result]
        ELSE IF "logged" \in SuspendsAt("addSale")
        THEN [st |-> pushed.st, h |-> pushed.h, at |-> "logged", result |-> <<pushed.ret>>]
        ELSE [st |-> res.st, h |-> res.h, at |-> "settled", result |-> <<res.ret>>]

\* the calls a batch is made of: addNewProduct of 'Red T-Shirt' (SKU RTS-007), of
\* another name with the same SKU and of the same name with another SKU;
\* updateInventory and addSale on Winter Scarf
ConcurrentCalls ==
    LET red == CHOOSE p \in ProductInputs : p.sku = <<"R","T","S","-","0","0","7">> IN
    { [tool |-> "addNewProduct", context |-> productData]
      : productData \in {red,
                         [red EXCEPT !.name = <<"C","r","i","m","s","o","n"," ","T","o","p">>],
                         [red EXCEPT !.sku = <<"R","T","S","-","0","0","8">>]} }
    \cup
    { [tool |-> "updateInventory",
       context |-> [productIdentifier |-> LitId(12349), identifierType |-> "id",
                    operation |-> c[1], quantity |-> c[2]]]
      : c \in {<<"subtract", 3>>, <<"set", 9>>} }
    \cup
    { [tool |-> "addSale", context |-> saleData]
      : saleData \in {sale \in SaleInputs : sale.productId = LitId(12349)} }

\* the calls are made: every execution is about to run its body
Launch ==
    /\ ret.op = "none"
    /\ \E n \in 2..MaxExecutions : \E batch \in [1..n -> ConcurrentCalls] :
           ret' = [op |-> "executions", args |-> batch,
                   value |-> [e \in 1..n |-> [at |-> "called", result |-> <<>>]],
                   order |-> <<>>]
    /\ UNCHANGED <<heap, store, instance, sampleSales, snapshot, now, ops>>

\* the event loop runs execution e from where it is to its next suspension or end
Step(e) ==
    /\ ret.op = "executions"
    /\ e \in DOMAIN ret.args
    /\ ret.value[e].at # "settled"
    /\ \E rnd \in Rnd :
           LET call == ret.args[e]
               run == CASE call.tool = "addNewProduct" ->
                               addNewProductFrom(store, heap, call.context, ret.value[e], now, rnd)
                        [] call.tool = "updateInventory" ->
                               updateInventoryFrom(store, heap, call.context, ret.value[e], now)
                        [] call.tool = "addSale" ->
                               addSaleFrom(store, heap, call.context, ret.value[e], now, rnd)
           IN  /\ store' = run.st
               /\ heap' = Collect(run.h, run.st, instance, snapshot)
               /\ ret' = [ret EXCEPT !.value[e] = [at |-> run.at, result |-> run.result],
                                     !.order = IF run.at = "settled" THEN Append(@, e) ELSE @]
    /\ ops' = ops + 1
    /\ UNCHANGED <<instance, sampleSales, snapshot, now>>

NextConcurrent ==
    \/ Launch
    \/ \E e \in 1..MaxExecutions : Step(e)
    \/ Tick

SpecConcurrent == Init /\ [][NextConcurrent]_vars

(***************************************************************************)
(* The sales tools getSalesData and revenueReports                         *)
(* (src/src/mastra/tools/sales), which read ecommerceStore.  The process   *)
(* runs in UTC; every instant is a whole tick, so 23:59:59.999 of a day is *)
(* the tick of its 23:00, with the same sales at or before it.  A Date is  *)
(* [valid, time]; an optional value is <<>> (undefined) or <<v>>.  The     *)
(* fields of a sale that no code modelled here reads (status, customerName *)
(* and shippingAddress) are left out.                                      *)
(***************************************************************************)
InvalidDate == [valid |-> FALSE, time |-> 0]

DateAt(t) == [valid |-> TRUE, time |-> t]

\* new Date(s) for a string: 'YYYY-MM-DD' naming a day of 2024 or 2025 is the
\* midnight that begins it; the other strings supplied here are no dates
ParseDate(s) ==
    LET IsDigit(c) == \E n \in DOMAIN Digit : Digit[n] = c
        DigitValue(c) == (CHOOSE n \in DOMAIN Digit : Digit[n] = c) - 1
    IN
    IF /\ Len(s) = 10
       /\ s[5] = "-" /\ s[8] = "-"
       /\ \A i \in {1, 2, 3, 4, 6, 7, 9, 10} : IsDigit(s[i])
    THEN LET year == 1000 * DigitValue(s[1]) + 100 * DigitValue(s[2])
                         + 10 * DigitValue(s[3]) + DigitValue(s[4])
             month == 10 * DigitValue(s[6]) + DigitValue(s[7])
             date == 10 * DigitValue(s[9]) + DigitValue(s[10])
         IN  IF /\ year \in {2024, 2025}
                /\ month \in 1..12
                /\ date >= 1
                /\ NewDate(year, month - 1, date) < NewDate(year, month, 1)
             THEN DateAt(NewDate(year, month - 1, date))
             ELSE InvalidDate
    ELSE InvalidDate

\* toISOString().split('T')[0]
IsoDate(t) ==
    LET TwoDigits(n) == padStart(toString(n), 2, "0") IN
    toString(getFullYear(t) \div 100) \o TwoDigits(getFullYear(t) % 100) \o <<"-">>
        \o TwoDigits(getMonth(t) + 1) \o <<"-">> \o TwoDigits(getDate(t))

\* Date.prototype.toISOString
toISOString(t) ==
    IsoDate(t) \o <<"T">> \o padStart(toString(t % 24), 2, "0") \o <<":","0","0",":","0","0",".","0","0","0","Z">>

\* the switch of getSalesData on period: the range, or the error thrown
SalesDataRange(context, t) ==
    LET today == NewDate(getFullYear(t), getMonth(t), getDate(t))
        period == context.period
    IN  IF period = <<"t","o","d","a","y">>
        THEN [threw |-> FALSE, start |-> DateAt(today), end |-> DateAt(t)]
        ELSE IF period = <<"y","e","s","t","e","r","d","a","y">>
        THEN [threw |-> FALSE, start |-> DateAt(today - Day(1)),
              end |-> DateAt(today - Day(1) + 23)]
        ELSE IF period = <<"l","a","s","t","-","w","e","e","k">>
        THEN [threw |-> FALSE, start |-> DateAt(today - Day(7)), end |-> DateAt(t)]
        ELSE IF period = <<"l","a","s","t","-","m","o","n","t","h">>
        THEN [threw |-> FALSE,
              start |-> DateAt(NewDate(getFullYear(today), getMonth(today) - 1,
                                       getDate(today))),
              end |-> DateAt(t)]
        ELSE IF period = <<"c","u","s","t","o","m">>
        THEN IF ~Truthy(context.startDate) \/ ~Truthy(context.endDate)
             THEN [threw |-> TRUE, error |-> "Start date and end date are required for custom period"]
             ELSE LET start == ParseDate(context.startDate)
                      end == ParseDate(context.endDate)
                  IN  IF ~start.valid \/ ~end.valid
                      THEN [threw |-> TRUE, error |-> "Invalid date format. Use YYYY-MM-DD format."]
                      ELSE [threw |-> FALSE, start |-> start, end |-> end]
        ELSE [threw |-> TRUE, error |-> "Invalid period"]

\* getSalesData.execute at the instant t
getSalesData(st, h, context, t) ==
    LET range == SalesDataRange(context, t) IN
    IF range.threw THEN range
    ELSE LET salesData == getSalesByDateRange(st, range.start.time, range.end.time)
             totalSales == SumAmount(salesData)
             totalOrders == Len(salesData)
             analytics == getSalesAnalytics(st, h, <<[start |-> range.start.time,
                                                      end |-> range.end.time]>>, t)
         IN  [threw |-> FALSE,
              period |-> IF context.period = <<"c","u","s","t","o","m">>
                         THEN IsoDate(range.start.time) \o <<" ","t","o"," ">>
                                  \o IsoDate(range.end.time)
                         ELSE context.period,
              totalSales |-> totalSales,
              totalOrders |-> totalOrders,
              avgOrderValue |-> AvgOrderValue(totalSales, totalOrders),
              salesData |-> [i \in DOMAIN salesData |->
                                [id |-> salesData[i].id,
                                 productName |-> salesData[i].productName,
                                 quantity |-> salesData[i].quantity,
                                 totalAmount |-> salesData[i].totalAmount,
                                 customerEmail |-> salesData[i].customerEmail,
                                 timestamp |-> toISOString(salesData[i].timestamp)]],
              metrics |-> IF context.includeMetrics
                          THEN <<[topProducts |-> analytics.topProducts,
                                  categoryPerformance |-> analytics.categoryPerformance]>>
                          ELSE <<>>]

\* the switch of revenueReports on reportType: the range, or the error thrown
ReportRange(context, t) ==
    LET reportType == context.reportType
        quarter == getMonth(t) \div 3
    IN  IF reportType = <<"d","a","i","l","y">>
        THEN [threw |-> FALSE, start |-> DateAt(DayStart(t)), end |-> DateAt(DayStart(t) + 23)]
        ELSE IF reportType = <<"w","e","e","k","l","y">>
        THEN [threw |-> FALSE, start |-> DateAt(t - Day(7)), end |-> DateAt(t)]
        ELSE IF reportType = <<"m","o","n","t","h","l","y">>
        THEN [threw |-> FALSE,
              start |-> DateAt(NewDate(getFullYear(t), getMonth(t), 1)),
              end |-> DateAt(NewDate(getFullYear(t), getMonth(t) + 1, 0))]
        ELSE IF reportType = <<"q","u","a","r","t","e","r","l","y">>
        THEN [threw |-> FALSE,
              start |-> DateAt(NewDate(getFullYear(t), quarter * 3, 1)),
              end |-> DateAt(NewDate(getFullYear(t), quarter * 3 + 3, 0))]
        ELSE IF reportType = <<"y","e","a","r","l","y">>
        THEN [threw |-> FALSE,
              start |-> DateAt(NewDate(getFullYear(t), 0, 1)),
              end |-> DateAt(NewDate(getFullYear(t), 11, 31))]
        ELSE IF reportType = <<"c","u","s","t","o","m">>
        THEN IF ~Truthy(context.startDate) \/ ~Truthy(context.endDate)
             THEN [threw |-> TRUE, error |-> "Start date and end date are required for custom reports"]
             ELSE [threw |-> FALSE, start |-> ParseDate(context.startDate),
                   end |-> ParseDate(context.endDate)]
        ELSE [threw |-> TRUE, error |-> "Invalid report type"]

RECURSIVE Tally(_, _, _)
\* the Map a loop `for (const sale of salesData)` fills when the i-th sale goes
\* under keys[i], after n sales: the entries in the order their keys were first set
Tally(salesData, keys, n) ==
    IF n = 0 THEN <<>>
    ELSE LET before == Tally(salesData, keys, n - 1)
             sale == salesData[n]
             hit == {i \in DOMAIN before : before[i].key = keys[n]}
         IN  IF hit # {}
             THEN [i \in DOMAIN before |->
                      IF i \in hit
                      THEN [before[i] EXCEPT !.revenue = @ + sale.totalAmount,
                                             !.orders = @ + 1,
                                             !.unitsSold = @ + sale.quantity]
                      ELSE before[i]]
             ELSE Append(before, [key |-> keys[n], revenue |-> sale.totalAmount,
                                  orders |-> 1, unitsSold |-> sale.quantity])

\* whole > 0 ? (part / whole) * 100 : 0
Percentage(part, whole) ==
    IF whole > 0 THEN Fraction(100 * part, whole) ELSE Fraction(0, 1)

categoryBreakdown(st, h, salesData, totalRevenue) ==
    LET category(sale) ==
            LET product == getProduct(st, sale.productId)
            IN  IF product # 0 /\ Truthy(h[product].category) THEN h[product].category
                ELSE <<"U","n","k","n","o","w","n">>
        categoryMap == Tally(salesData, [i \in DOMAIN salesData |-> category(salesData[i])],
                             Len(salesData))
    IN  [i \in DOMAIN categoryMap |->
            [category |-> categoryMap[i].key,
             revenue |-> categoryMap[i].revenue,
             orders |-> categoryMap[i].orders,
             percentage |-> Percentage(categoryMap[i].revenue, totalRevenue)]]

paymentMethodBreakdown(salesData, totalRevenue) ==
    LET method(sale) == IF Truthy(sale.paymentMethod) THEN sale.paymentMethod
                        ELSE <<"U","n","k","n","o","w","n">>
        paymentMap == Tally(salesData, [i \in DOMAIN salesData |-> method(salesData[i])],
                            Len(salesData))
    IN  [i \in DOMAIN paymentMap |->
            [method |-> paymentMap[i].key,
             revenue |-> paymentMap[i].revenue,
             orders |-> paymentMap[i].orders,
             percentage |-> Percentage(paymentMap[i].revenue, totalRevenue)]]

ReportTopProducts == 10

\* the topProducts of revenueReports: by revenue, the first ReportTopProducts
reportTopProducts(st, h, salesData) ==
    LET productName(id) ==
            LET product == getProduct(st, id)
            IN  IF product # 0 /\ Truthy(h[product].name) THEN h[product].name
                ELSE <<"U","n","k","n","o","w","n"," ","P","r","o","d","u","c","t">>
        productMap == Tally(salesData, [i \in DOMAIN salesData |-> salesData[i].productId],
                            Len(salesData))
        entries == [i \in DOMAIN productMap |->
                       [productId |-> productMap[i].key,
                        productName |-> productName(productMap[i].key),
                        revenue |-> productMap[i].revenue,
                        unitsSold |-> productMap[i].unitsSold]]
    IN  SliceTo(SortDescending(entries, [i \in DOMAIN entries |-> entries[i].revenue]),
                ReportTopProducts)

RECURSIVE SumRevenue(_)
\* Array.from(map.values()).reduce((sum, value) => sum + value, 0)
SumRevenue(entries) ==
    IF entries = <<>> THEN 0 ELSE Head(entries).revenue + SumRevenue(Tail(entries))

customerInsights(salesData) ==
    LET customerEmails == {salesData[i].customerEmail : i \in DOMAIN salesData}
        customerPurchases ==
            Tally(salesData, [i \in DOMAIN salesData |-> salesData[i].customerEmail],
                  Len(salesData))
    IN  [newCustomers |-> Cardinality(customerEmails),
         returningCustomers |-> 0,
         averageCustomerValue |->
             Fraction(SumRevenue(customerPurchases), Len(customerPurchases))]

\* the dailyBreakdown array, sorted by date ('YYYY-MM-DD' keys compare as their days)
dailyBreakdown(salesData) ==
    LET dailyMap == Tally(salesData,
                          [i \in DOMAIN salesData |-> IsoDate(salesData[i].timestamp)],
                          Len(salesData))
        entries == [i \in DOMAIN dailyMap |->
                       [date |-> dailyMap[i].key, revenue |-> dailyMap[i].revenue,
                        orders |-> dailyMap[i].orders]]
    IN  SortDescending(entries, [i \in DOMAIN entries |-> 0 - ParseDate(entries[i].date).time])

\* the comparison with the period of the same length that ends where this one
\* starts (start and end are instants)
previousPeriodComparison(st, start, end, totalRevenue, totalOrders) ==
    LET periodLength == end - start
        prevSalesData == getSalesByDateRange(st, start - periodLength, end - periodLength)
        prevRevenue == SumAmount(prevSalesData)
        prevOrders == Len(prevSalesData)
    IN  [revenue |-> [current |-> totalRevenue, previous |-> prevRevenue,
                      change |-> totalRevenue - prevRevenue,
                      changePercentage |->
                          Percentage(totalRevenue - prevRevenue, prevRevenue)],
         orders |-> [current |-> totalOrders, previous |-> prevOrders,
                     change |-> totalOrders - prevOrders,
                     changePercentage |->
                         Percentage(totalOrders - prevOrders, prevOrders)]]

\* revenueReports.execute at the instant t; toISOString throws for an Invalid Date
revenueReports(st, h, context, t) ==
    LET range == ReportRange(context, t) IN
    IF range.threw THEN range
    ELSE IF ~range.start.valid \/ ~range.end.valid
    THEN [threw |-> TRUE, error |-> "RangeError: Invalid time value"]
    ELSE LET salesData == getSalesByDateRange(st, range.start.time, range.end.time)
             totalRevenue == SumAmount(salesData)
             totalOrders == Len(salesData)
             comparison == previousPeriodComparison(st, range.start.time, range.end.time,
                                                    totalRevenue, totalOrders)
             breakdown == dailyBreakdown(salesData)
         IN  [threw |-> FALSE,
              reportPeriod |-> [start |-> IsoDate(range.start.time),
                                end |-> IsoDate(range.end.time),
                                type |-> context.reportType],
              totalRevenue |-> totalRevenue,
              totalOrders |-> totalOrders,
              averageOrderValue |-> AvgOrderValue(totalRevenue, totalOrders),
              growthRate |-> IF context.compareWithPrevious
                             THEN <<comparison.revenue.changePercentage>> ELSE <<>>,
              categoryBreakdown |->
                  IF context.includeCategoryBreakdown
                  THEN <<categoryBreakdown(st, h, salesData, totalRevenue)>> ELSE <<>>,
              paymentMethodBreakdown |->
                  IF context.includePaymentMethods
                  THEN <<paymentMethodBreakdown(salesData, totalRevenue)>> ELSE <<>>,
              topProducts |-> reportTopProducts(st, h, salesData),
              customerInsights |->
                  IF context.includeCustomerInsights
                  THEN <<customerInsights(salesData)>> ELSE <<>>,
              dailyBreakdown |-> IF Len(breakdown) > 0 THEN <<breakdown>> ELSE <<>>,
              previousPeriodComparison |->
                  IF context.compareWithPrevious THEN <<comparison>> ELSE <<>>]

(***************************************************************************)
(* The sales tools, run after a few calls that change what they read.      *)
(***************************************************************************)
MaxSalesOps == 2   \* calls that change the store before a tool runs

\* the startDate and endDate strings of a custom period: a range that holds the
\* sample sales, the same inverted, a range with no sale in it, a day's midnight
\* twice, and an absent, an empty and an unreadable startDate
CustomDates ==
    { [startDate |-> <<"2","0","2","5","-","0","7","-","0","1">>, endDate |-> <<"2","0","2","5","-","0","7","-","1","0">>],
      [startDate |-> <<"2","0","2","5","-","0","7","-","1","0">>, endDate |-> <<"2","0","2","5","-","0","7","-","0","1">>],
      [startDate |-> <<"2","0","2","5","-","0","7","-","0","3">>, endDate |-> <<"2","0","2","5","-","0","7","-","0","7">>],
      [startDate |-> <<"2","0","2","5","-","0","7","-","0","8">>, endDate |-> <<"2","0","2","5","-","0","7","-","0","8">>],
      [startDate |-> undefined, endDate |-> <<"2","0","2","5","-","0","7","-","1","0">>],
      [startDate |-> <<>>, endDate |-> <<"2","0","2","5","-","0","7","-","1","0">>],
      [startDate |-> <<"n","o","t","-","a","-","d","a","t","e">>, endDate |-> <<"2","0","2","5","-","0","7","-","1","0">>] }

\* the context of getSalesData once the schema's defaults are applied
SalesDataInputs ==
    { [period |-> period, startDate |-> dates.startDate, endDate |-> dates.endDate,
       includeMetrics |-> includeMetrics]
      : period \in {<<"t","o","d","a","y">>, <<"y","e","s","t","e","r","d","a","y">>, <<"l","a","s","t","-","w","e","e","k">>, <<"l","a","s","t","-","m","o","n","t","h">>},
        dates \in {[startDate |-> undefined, endDate |-> undefined]}, includeMetrics \in BOOLEAN }
    \cup
    { [period |-> <<"c","u","s","t","o","m">>, startDate |-> dates.startDate, endDate |-> dates.endDate,
       includeMetrics |-> includeMetrics]
      : dates \in CustomDates, includeMetrics \in BOOLEAN }

\* the context of revenueReports once the schema's defaults are applied; the four
\* include/compare flags are the defaults, all set, or none set
ReportInputs ==
    LET ReportFlags ==
    { [includeCategoryBreakdown |-> TRUE, includePaymentMethods |-> TRUE,
       includeCustomerInsights |-> FALSE, compareWithPrevious |-> TRUE],
      [includeCategoryBreakdown |-> TRUE, includePaymentMethods |-> TRUE,
       includeCustomerInsights |-> TRUE, compareWithPrevious |-> TRUE],
      [includeCategoryBreakdown |-> FALSE, includePaymentMethods |-> FALSE,
       includeCustomerInsights |-> FALSE, compareWithPrevious |-> FALSE] }
    IN
    { [reportType |-> reportType, startDate |-> dates.startDate, endDate |-> dates.endDate,
       includeCategoryBreakdown |-> flags.includeCategoryBreakdown,
       includePaymentMethods |-> flags.includePaymentMethods,
       includeCustomerInsights |-> flags.includeCustomerInsights,
       compareWithPrevious |-> flags.compareWithPrevious]
      : reportType \in {<<"d","a","i","l","y">>, <<"w","e","e","k","l","y">>, <<"m","o","n","t","h","l","y">>, <<"q","u","a","r","t","e","r","l","y">>, <<"y","e","a","r","l","y">>},
        dates \in {[startDate |-> undefined, endDate |-> undefined]}, flags \in ReportFlags }
    \cup
    { [reportType |-> <<"c","u","s","t","o","m">>, startDate |-> dates.startDate, endDate |-> dates.endDate,
       includeCategoryBreakdown |-> flags.includeCategoryBreakdown,
       includePaymentMethods |-> flags.includePaymentMethods,
       includeCustomerInsights |-> flags.includeCustomerInsights,
       compareWithPrevious |-> flags.compareWithPrevious]
      : dates \in CustomDates, flags \in ReportFlags }

GetSalesData ==
    \E context \in SalesDataInputs :
    /\ ret' = [op |-> "getSalesData", args |-> context,
               value |-> getSalesData(store, heap, context, now)]
    /\ UNCHANGED <<heap, store, instance, sampleSales, snapshot, now, ops>>

RevenueReports ==
    \E context \in ReportInputs :
    /\ ret' = [op |-> "revenueReports", args |-> context,
               value |-> revenueReports(store, heap, context, now)]
    /\ UNCHANGED <<heap, store, instance, sampleSales, snapshot, now, ops>>

\* the last step was not a run of a sales tool
AfterSalesChange == ret.op \notin {"getSalesData", "revenueReports"}

NextSales ==
    \/ ops < MaxSalesOps /\ AddSale
    \/ ops < MaxSalesOps /\ DeleteProduct
    \/ ops < MaxSalesOps /\ ImportEmptyCall
    \/ AfterSalesChange /\ GetSalesData
    \/ AfterSalesChange /\ RevenueReports
    \/ Tick

SpecSales == Init /\ [][NextSales]_vars

(***************************************************************************)
(* Properties.                                                             *)
(***************************************************************************)
\* the step is a call of the named operation (ret' holds its arguments and result)
Called(op) == ops' = ops + 1 /\ ret'.op = op

\* the stored product with the given id (the id must be stored)
Stored(st, h, id) == h[getProduct(st, id)]

StoredIds(st) == {st.products[i].key : i \in DOMAIN st.products}

Keys(st) == [i \in DOMAIN st.products |-> st.products[i].key]

RedTShirt == <<"R","e","d"," ","T","-","S","h","i","r","t">>

\* C1: every stored product has stock >= 0 in every state reachable through the
\* store's interface called within its contract (Spec).
C1_StockNeverNegative ==
    \A i \in DOMAIN store.products : heap[store.products[i].ref].stock >= 0

\* C1 witness: subtract 9 has just been applied to a stored product and left it at 0
C1_Witness ==
    /\ ret.op = "updateStock" /\ ret.value = TRUE
    /\ ret.args.operation = "subtract" /\ ret.args.quantity = 9
    /\ Stored(store, heap, ret.args.id).stock = 0

\* C2: updateStock on an existing product with stock s returns true and leaves the
\* stock at s + q (add), max(0, s - q) (subtract), max(0, q) (set), for any integer q.
C2_UpdateStockArithmetic ==
    [][(/\ Called("updateStock")
        /\ ret'.args.operation \in {"add", "subtract", "set"}
        /\ getProduct(store, ret'.args.id) # 0) =>
          LET s == Stored(store, heap, ret'.args.id).stock
              q == ret'.args.quantity
              after == Stored(store', heap', ret'.args.id).stock
          IN  /\ ret'.value = TRUE
              /\ ret'.args.operation = "add" => after = s + q
              /\ ret'.args.operation = "subtract" =>
                    /\ after >= 0
                    /\ IF s - q > 0 THEN after = s - q ELSE after = 0
              /\ ret'.args.operation = "set" =>
                    IF q < 0 THEN after = 0 ELSE after = q]_vars

\* C2 witness: the second call, set with a negative quantity, has just left Winter
\* Scarf at stock 0
C2_Witness ==
    /\ ret.op = "updateStock" /\ ret.value = TRUE /\ ops = 2
    /\ ret.args.operation = "set" /\ ret.args.quantity < 0
    /\ Stored(store, heap, ret.args.id).stock = 0
    /\ ret.args.id = LitId(12349)

\* C3: addSale for an existing product appends exactly one sale (the one it returns)
\* and leaves the product's stock at max(0, s - q), every other product unchanged.
C3_AddSaleDecrements ==
    [][(Called("addSale") /\ getProduct(store, ret'.args.productId) # 0) =>
          LET id == ret'.args.productId
              s == Stored(store, heap, id).stock
              q == ret'.args.quantity
          IN  /\ store'.sales = Append(store.sales, ret'.value)
              /\ Len(store'.sales) = Len(store.sales) + 1
              /\ \A f \in DOMAIN ret'.args : ret'.value[f] = ret'.args[f]
              /\ store'.products = store.products
              /\ Stored(store', heap', id).stock = (IF s - q > 0 THEN s - q ELSE 0)
              /\ \A other \in StoredIds(store) \ {id} :
                     Stored(store', heap', other) = Stored(store, heap, other)]_vars

\* C3 witness: Red T-Shirt was added with stock 3, then a sale of 5 left it at 0
C3_Witness ==
    /\ ops = 2 /\ ret.op = "addSale" /\ ret.value.quantity = 5
    /\ getProduct(store, ret.value.productId) # 0
    /\ Stored(store, heap, ret.value.productId).name = RedTShirt
    /\ Stored(store, heap, ret.value.productId).stock = 0
    /\ Len(store.sales) = Len(sampleSales) + 1

\* C4: addSale whose productId matches no stored product still appends the sale and
\* returns it, and changes neither the product map, nor any product, nor the
\* category and collection sets.
C4_AddSaleUnknownProduct ==
    [][(Called("addSale") /\ getProduct(store, ret'.args.productId) = 0) =>
          /\ store'.sales = Append(store.sales, ret'.value)
          /\ \A f \in DOMAIN ret'.args : ret'.value[f] = ret'.args[f]
          /\ store'.products = store.products
          /\ \A id \in StoredIds(store) :
                 Stored(store', heap', id) = Stored(store, heap, id)
          /\ store'.categories = store.categories
          /\ store'.collections = store.collections]_vars

\* C4 witness: a sale was logged for Winter Scarf after the product had been deleted
C4_Witness ==
    /\ ret.op = "addSale" /\ ret.value.productId = LitId(12349)
    /\ getProduct(store, LitId(12349)) = 0
    /\ store.sales[Len(store.sales)] = ret.value

\* C5: addProduct stores the product under an id no stored product has: the count
\* grows by one, every product stored before is still stored unchanged, and
\* getProduct of the returned id returns the supplied data.
C5_AddProductFreshId ==
    [][Called("addProduct") =>
          /\ ret'.value.id \notin StoredIds(store)
          /\ Len(store'.products) = Len(store.products) + 1
          /\ \A id \in StoredIds(store) :
                 /\ getProduct(store', id) # 0
                 /\ Stored(store', heap', id) = Stored(store, heap, id)
          /\ getProduct(store', ret'.value.id) # 0
          /\ \A f \in DOMAIN ret'.args :
                 Stored(store', heap', ret'.value.id)[f] = ret'.args[f]]_vars

\* a stored product has the sku / exactly the name
SkuTaken(st, h, sku) == \E i \in DOMAIN st.products : h[st.products[i].ref].sku = sku

NameTaken(st, h, name) == \E i \in DOMAIN st.products : h[st.products[i].ref].name = name

\* C6: the addNewProduct tool rejects, leaving the store unchanged, exactly when the
\* supplied SKU is the SKU of a stored product or a stored product has the same
\* name, the SKU being checked first; otherwise it adds the product through
\* addProduct and returns success.
C6_AddNewProductRejectsDuplicates ==
    [][Called("addNewProduct") =>
          LET productData == ret'.args
              dupSku == Truthy(productData.sku) /\ SkuTaken(store, heap, productData.sku)
              dupName == NameTaken(store, heap, productData.name)
          IN  /\ ret'.value.success = ~(dupSku \/ dupName)
              /\ dupSku => ret'.value.error = "DuplicateSKU"
              /\ (dupName /\ ~dupSku) => ret'.value.error = "DuplicateName"
              /\ (dupSku \/ dupName) => (store' = store /\ heap' = heap)
              /\ ~(dupSku \/ dupName) =>
                    /\ Len(store'.products) = Len(store.products) + 1
                    /\ getProduct(store', ret'.value.productId) # 0
                    /\ \A f \in DOMAIN productData :
                           Stored(store', heap', ret'.value.productId)[f] = productData[f]]_vars

\* no two products of the store st have the same SKU
SkusUnique(st, h) ==
    \A i, j \in DOMAIN st.products :
        (i # j /\ h[st.products[i].ref].sku # undefined) =>
            h[st.products[i].ref].sku # h[st.products[j].ref].sku

\* C7: in every state reachable through the tools and the seed functions, no two
\* stored products have the same SKU (in ecommerceStore, and in the instance the
\* seed functions fill).
C7_SkuUnique ==
    /\ SkusUnique(store, heap)
    /\ instance # <<>> => SkusUnique(instance[1], heap)

\* C8: importData(exportData()) leaves the same products (ids, field values,
\* iteration order) and the same sale log.
C8_ExportImportRoundTrip ==
    [][Called("roundTrip") =>
          /\ Keys(store') = Keys(store)
          /\ Values(store', heap') = Values(store, heap)
          /\ store'.sales = store.sales]_vars

\* C8 witness: the round trip was made on a store from which Winter Scarf had been
\* deleted and to which a product had been added
C8_Witness ==
    /\ ret.op = "roundTrip" /\ ops = 3
    /\ \E i \in DOMAIN store.products : store.products[i].key[1] = "prod"
    /\ getProduct(store, LitId(12349)) = 0

\* the step is a query of the named kind (or leaves everything as it is)
Asked(op) == ret'.op = op /\ ops' = ops /\ now' = now

\* the indices of the logged sales whose timestamp lies in [start, end]
InRange(st, start, end) ==
    {i \in DOMAIN st.sales : start <= st.sales[i].timestamp /\ st.sales[i].timestamp <= end}

\* the k-th smallest element of a set of indices
Kth(idx, k) == CHOOSE i \in idx : Cardinality({j \in idx : j < i}) = k - 1

\* the logged sales at the indices idx, in log order
SalesAt(st, idx) == [k \in 1..Cardinality(idx) |-> st.sales[Kth(idx, k)]]

RECURSIVE TotalAmountAt(_, _)
TotalAmountAt(st, idx) ==
    IF idx = {} THEN 0
    ELSE LET i == CHOOSE j \in idx : TRUE
         IN  st.sales[i].totalAmount + TotalAmountAt(st, idx \ {i})

\* C9: getSalesByDateRange(start, end) returns exactly the logged sales with
\* start <= timestamp <= end, in log order, and changes nothing in the store.
C9_DateRangeInclusive ==
    [][Asked("getSalesByDateRange") =>
          /\ ret'.value = SalesAt(store', InRange(store', ret'.args.start, ret'.args.end))
          /\ store' = store
          /\ heap' = heap]_vars

\* C9 witness: the range queried starts exactly at one sale's timestamp and ends
\* exactly at another's; both sales are returned and a sale outside it is not
C9_Witness ==
    /\ ret.op = "getSalesByDateRange"
    /\ \E i, j \in DOMAIN ret.value :
           /\ ret.value[i].timestamp = ret.args.start
           /\ ret.value[j].timestamp = ret.args.end
           /\ ret.args.start < ret.args.end
    /\ Len(ret.value) < Len(store.sales)
    /\ Len(store.sales) > Len(sampleSales)

\* C10: getSalesAnalytics over no sale returns totalSales 0, totalOrders 0,
\* avgOrderValue 0 and empty topProducts and categoryPerformance; otherwise
\* totalOrders is the number of selected sales, totalSales the sum of their
\* totalAmount and avgOrderValue their quotient; no division by zero either way.
C10_AnalyticsTotals ==
    ret.op = "getSalesAnalytics" =>
        LET idx == IF ret.args = <<>> THEN DOMAIN store.sales
                   ELSE InRange(store, ret.args[1].start, ret.args[1].end)
            n == Cardinality(idx)
            m == ret.value
        IN  /\ m.avgOrderValue.den # 0
            /\ m.totalOrders = n
            /\ m.totalSales = TotalAmountAt(store, idx)
            /\ n = 0 => /\ m.totalSales = 0
                        /\ m.avgOrderValue.num = 0
                        /\ m.topProducts = <<>>
                        /\ m.categoryPerformance = <<>>
            /\ n > 0 => m.avgOrderValue.num * n = m.totalSales * m.avgOrderValue.den

\* C10 witness: analytics were asked for a date range that holds none of the
\* logged sales
C10_Witness ==
    /\ ret.op = "getSalesAnalytics"
    /\ ret.args # <<>>
    /\ ret.args[1].start <= ret.args[1].end
    /\ store.sales # <<>>
    /\ ret.value.totalOrders = 0

\* the product p satisfies every filter supplied in f; a fragment matches when the
\* field contains it, letter case aside (so the empty fragment excludes nothing)
Satisfies(p, f) ==
    /\ "category" \in DOMAIN f => includes(toLowerCase(p.category), toLowerCase(f.category))
    /\ "collection" \in DOMAIN f =>
           \/ f.collection = <<>>
           \/ p.collection # undefined
                /\ includes(toLowerCase(p.collection), toLowerCase(f.collection))
    /\ "tag" \in DOMAIN f =>
           \/ f.tag = <<>>
           \/ \E i \in DOMAIN p.tags : includes(toLowerCase(p.tags[i]), toLowerCase(f.tag))
    /\ "priceMin" \in DOMAIN f => p.price >= f.priceMin
    /\ "priceMax" \in DOMAIN f => p.price <= f.priceMax
    /\ "inStock" \in DOMAIN f => (IF f.inStock THEN p.stock > 0 ELSE p.stock = 0)
    /\ "visible" \in DOMAIN f => p.isVisible = f.visible

\* C11: getAllProducts(filters) returns exactly the stored products that satisfy
\* every supplied filter at once (in the store's iteration order), string matches
\* being case-insensitive; an omitted filter excludes nothing.
C11_GetAllProductsFilters ==
    ret.op = "getAllProducts" =>
        LET all == Values(store, heap)
            kept == {i \in DOMAIN all : Satisfies(all[i], ret.args)}
        IN  /\ Len(ret.value) = Cardinality(kept)
            /\ \A i \in kept : \E k \in DOMAIN ret.value : ret.value[k] = all[i]
            /\ \A k \in DOMAIN ret.value : \E i \in kept : ret.value[k] = all[i]

\* C11 witness: an inStock filter alone, with nothing else supplied, has returned a
\* hidden product and a visible one, and left a stored product out
C11_Witness ==
    /\ ret.op = "getAllProducts"
    /\ DOMAIN ret.args = {"inStock"}
    /\ \E k \in DOMAIN ret.value : ~ret.value[k].isVisible
    /\ \E k \in DOMAIN ret.value : ret.value[k].isVisible
    /\ Len(ret.value) < Len(store.products)

\* the position of the key k among the entries of the store st (k must be stored)
Position(st, k) == CHOOSE i \in DOMAIN st.products : st.products[i].key = k

BlueTShirt == <<"B","l","u","e"," ","T","-","S","h","i","r","t">>

\* C12: getProductByName(fragment) returns the earliest-inserted stored product
\* whose name contains the fragment case-insensitively, or nothing if there is
\* none: every call keeps the order of the products that stay and puts a new one
\* last, so an update does not move a product; while "Blue T-Shirt", inserted
\* first, is stored under that name, "shirt" returns it.
C12_GetProductByNameFirstMatch ==
    [][/\ \A k1, k2 \in StoredIds(store) \cap StoredIds(store') :
              Position(store, k1) < Position(store, k2) =>
                  Position(store', k1) < Position(store', k2)
       /\ \A k1 \in StoredIds(store), k2 \in StoredIds(store') \ StoredIds(store) :
              k1 \in StoredIds(store') => Position(store', k1) < Position(store', k2)
       /\ Asked("getProductByName") =>
              LET all == Values(store, heap)
                  hits == {i \in DOMAIN all :
                              includes(toLowerCase(all[i].name), toLowerCase(ret'.args))}
              IN  /\ hits = {} => ret'.value = <<>>
                  /\ hits # {} =>
                        /\ ret'.value # <<>>
                        /\ \E i \in hits : /\ ret'.value[1] = all[i]
                                           /\ \A j \in hits : i <= j
                  /\ (/\ ret'.args = <<"s","h","i","r","t">>
                      /\ getProduct(store, LitId(12345)) # 0
                      /\ Stored(store, heap, LitId(12345)).name = BlueTShirt) =>
                         ret'.value = <<Stored(store, heap, LitId(12345))>>
                  /\ store' = store /\ heap' = heap]_vars

\* C12 witness: "shirt" has returned Blue T-Shirt after Red T-Shirt was added and
\* Blue T-Shirt itself was updated
C12_Witness ==
    /\ ret.op = "getProductByName" /\ ret.args = <<"s","h","i","r","t">>
    /\ ret.value # <<>> /\ ret.value[1].id = LitId(12345)
    /\ ret.value[1].updatedAt >= LoadTime
    /\ \E k \in StoredIds(store) : Stored(store, heap, k).name = RedTShirt

RECURSIVE QuantityAt(_, _)
\* the summed quantity of the logged sales at the indices idx
QuantityAt(st, idx) ==
    IF idx = {} THEN 0
    ELSE LET i == CHOOSE j \in idx : TRUE
         IN  st.sales[i].quantity + QuantityAt(st, idx \ {i})

\* C13: getTopSellingProducts(limit, period) returns at most limit products, each
\* one a product the store holds now, in non-increasing order of their summed sale
\* quantity over the considered sales; when every product sold is still stored, no
\* product left out has sold more than one returned, and min(limit, number of
\* products sold) are returned.
C13_TopSellingByQuantity ==
    ret.op = "getTopSellingProducts" =>
        LET considered == IF ret.args.period = <<>> THEN DOMAIN store.sales
                          ELSE InRange(store, ret.args.period[1].start,
                                       ret.args.period[1].end)
            Sold(id) == QuantityAt(store, {i \in considered : store.sales[i].productId = id})
            soldIds == {store.sales[i].productId : i \in considered}
            got == ret.value
        IN  /\ Len(got) <= ret.args.limit
            /\ \A k \in DOMAIN got :
                   /\ got[k].id \in soldIds
                   /\ getProduct(store, got[k].id) # 0
                   /\ Stored(store, heap, got[k].id) = got[k]
            /\ \A k \in 1..(Len(got) - 1) : Sold(got[k].id) >= Sold(got[k + 1].id)
            /\ \A k1, k2 \in DOMAIN got : k1 # k2 => got[k1].id # got[k2].id
            /\ soldIds \subseteq StoredIds(store) =>
                   /\ Len(got) = (IF Cardinality(soldIds) < ret.args.limit
                                  THEN Cardinality(soldIds) ELSE ret.args.limit)
                   /\ \A id \in soldIds \ {got[k].id : k \in DOMAIN got} :
                          \A k \in DOMAIN got : Sold(id) <= Sold(got[k].id)

\* C13 witness: with limit 2 and no period the best seller by quantity, Blue
\* T-Shirt, is returned alone: the second, Winter Scarf, has been deleted since its
\* sale, and Leather Jacket, first by revenue, is stored but not returned
C13_Witness ==
    /\ ret.op = "getTopSellingProducts"
    /\ ret.args.limit = 2 /\ ret.args.period = <<>>
    /\ Len(ret.value) = 1
    /\ ret.value[1].id = LitId(12345)
    /\ getProduct(store, LitId(12346)) # 0
    /\ getProduct(store, LitId(12349)) = 0
    /\ \E i \in DOMAIN store.sales : store.sales[i].productId = LitId(12349)

\* C14: updateProduct(id, fields) with an unknown id returns empty and changes
\* nothing; with a known id the stored (and returned) record is the old one with
\* exactly the supplied fields overridden, id and createdAt unchanged, updatedAt the
\* time of the call and not earlier than before; every other product and the sale
\* log are unchanged, and the record's category (and collection, if any) is in the
\* tracking sets.
C14_UpdateProductMerge ==
    [][Called("updateProduct") =>
          LET id == ret'.args.id
              fields == ret'.args.updates
          IN  IF getProduct(store, id) = 0
              THEN /\ ret'.value = <<>>
                   /\ store' = store
                   /\ heap' = heap
              ELSE LET before == Stored(store, heap, id)
                       after == Stored(store', heap', id)
                   IN  /\ getProduct(store', id) # 0
                       /\ ret'.value = <<after>>
                       /\ \A f \in DOMAIN before \ {"updatedAt"} :
                              after[f] = (IF f \in DOMAIN fields THEN fields[f]
                                          ELSE before[f])
                       /\ DOMAIN after = DOMAIN before
                       /\ after.id = before.id /\ after.createdAt = before.createdAt
                       /\ after.updatedAt = now /\ after.updatedAt >= before.updatedAt
                       /\ Keys(store') = Keys(store)
                       /\ \A other \in StoredIds(store) \ {id} :
                              Stored(store', heap', other) = Stored(store, heap, other)
                       /\ store'.sales = store.sales
                       /\ after.category \in getCategories(store')
                       /\ Truthy(after.collection) =>
                              after.collection \in getCollections(store')]_vars

\* C14 witness: Winter Scarf has just been moved to a category the store did not
\* know and stripped of its collection
C14_Witness ==
    /\ ret.op = "updateProduct" /\ ret.args.id = LitId(12349)
    /\ "category" \in DOMAIN ret.args.updates
    /\ ret.value # <<>>
    /\ Stored(store, heap, LitId(12349)).category = <<"O","u","t","d","o","o","r">>
    /\ Stored(store, heap, LitId(12349)).collection = undefined
    /\ Stored(store, heap, LitId(12349)).name = <<"W","i","n","t","e","r"," ","S","c","a","r","f">>

\* C15: the updateInventory tool resolves its target by identifierType (the id, the
\* exact sku, or a name fragment, the first match in store order); when nothing
\* resolves it fails with the not-found error and no stock changes; otherwise it
\* applies the operation to the resolved product only, and the previousStock and
\* newStock it returns are that product's stock just before and just after.
C15_UpdateInventoryResolves ==
    [][Called("updateInventory") =>
          LET a == ret'.args
              all == Values(store, heap)
              hits == CASE a.identifierType = "id" ->
                             {i \in DOMAIN all : all[i].id = a.productIdentifier}
                        [] a.identifierType = "sku" ->
                             {i \in DOMAIN all : all[i].sku = a.productIdentifier}
                        [] OTHER ->
                             {i \in DOMAIN all : includes(toLowerCase(all[i].name),
                                                          toLowerCase(a.productIdentifier))}
          IN  IF hits = {}
              THEN /\ ~ret'.value.success
                   /\ ret'.value.error = "NotFound"
                   /\ store' = store
                   /\ \A id \in StoredIds(store) :
                          Stored(store', heap', id) = Stored(store, heap, id)
              ELSE LET target == all[CHOOSE i \in hits : \A j \in hits : i <= j].id
                       s == Stored(store, heap, target).stock
                       q == a.quantity
                   IN  /\ ret'.value.success
                       /\ ret'.value.productId = target
                       /\ ret'.value.previousStock = s
                       /\ ret'.value.newStock = Stored(store', heap', target).stock
                       /\ ret'.value.newStock =
                              (CASE a.operation = "add" -> s + q
                                 [] a.operation = "subtract" -> IF s - q > 0 THEN s - q ELSE 0
                                 [] a.operation = "set" -> q)
                       /\ Keys(store') = Keys(store)
                       /\ \A id \in StoredIds(store) \ {target} :
                              Stored(store', heap', id) = Stored(store, heap, id)]_vars

\* C15 witness: in the second call the fragment "shirt" resolved to Blue T-Shirt,
\* first of the products whose name contains it, and took its stock from 25 to 16
C15_Witness ==
    /\ ops = 2 /\ ret.op = "updateInventory"
    /\ ret.args.identifierType = "name"
    /\ ret.args.productIdentifier = <<"s","h","i","r","t">>
    /\ ret.value.success
    /\ ret.value.productId = LitId(12345)
    /\ ret.value.previousStock = 25 /\ ret.value.newStock = 16
    /\ Stored(store, heap, LitId(12345)).stock = 16

\* C16: under addProduct, updateProduct, deleteProduct, updateStock and addSale the
\* category and collection tracking sets only grow: what getCategories() or
\* getCollections() returned once, every later call returns.
C16_TrackingSetsGrow ==
    [][/\ getCategories(store) \subseteq getCategories(store')
       /\ getCollections(store) \subseteq getCollections(store')]_vars

\* C16 witness: "Accessories" is still a category although Winter Scarf, the only
\* product that carried it, has been deleted or moved to another category
C16_Witness ==
    /\ <<"A","c","c","e","s","s","o","r","i","e","s">> \in getCategories(store)
    /\ \A id \in StoredIds(store) :
           Stored(store, heap, id).category # <<"A","c","c","e","s","s","o","r","i","e","s">>
    /\ ops = MaxCatalogOps

\* C17: the sale log is append-only under addProduct, updateProduct, deleteProduct,
\* updateStock and addSale: the log before a call is a prefix of the log after it,
\* so no logged sale changes, and the sales of a deleted or renamed product keep
\* their productId and productName.
C17_SaleLogAppendOnly ==
    [][/\ Len(store.sales) <= Len(store'.sales)
       /\ SubSeq(store'.sales, 1, Len(store.sales)) = store.sales
       /\ Len(store'.sales) > Len(store.sales) =>
              /\ Called("addSale")
              /\ store'.sales = Append(store.sales, ret'.value)]_vars

\* C17 witness: Winter Scarf has been deleted and Blue T-Shirt renamed, and the
\* sample sales of both are in the log under the names they were sold by
C17_Witness ==
    /\ getProduct(store, LitId(12349)) = 0
    /\ getProduct(store, LitId(12345)) # 0
    /\ Stored(store, heap, LitId(12345)).name = <<"B","l","u","e"," ","T","e","e">>
    /\ \E i \in DOMAIN store.sales :
           /\ store.sales[i].productId = LitId(12349)
           /\ store.sales[i].productName = <<"W","i","n","t","e","r"," ","S","c","a","r","f">>
    /\ \E i \in DOMAIN store.sales :
           /\ store.sales[i].productId = LitId(12345)
           /\ store.sales[i].productName = BlueTShirt
    /\ store.sales = sampleSales

\* the last step ran the sales tool `op` for a custom period whose startDate and
\* endDate both name days, the first later than the second
InvertedCustomRange(op) ==
    /\ ret.op = op
    /\ (IF op = "getSalesData" THEN ret.args.period ELSE ret.args.reportType)
           = <<"c","u","s","t","o","m">>
    /\ Truthy(ret.args.startDate) /\ Truthy(ret.args.endDate)
    /\ ParseDate(ret.args.startDate).valid /\ ParseDate(ret.args.endDate).valid
    /\ ParseDate(ret.args.startDate).time > ParseDate(ret.args.endDate).time

\* C18: getSalesData with period custom and revenueReports with reportType custom,
\* given a startDate later than the endDate, throw an error and return no result.
C18_InvertedRangeRejected ==
    \A op \in {"getSalesData", "revenueReports"} : InvertedCustomRange(op) => ret.value.threw

\* the last step ran revenueReports, which returned a report over no sale
EmptyReport ==
    /\ ret.op = "revenueReports"
    /\ ~ret.value.threw
    /\ ret.value.totalOrders = 0

\* C19: revenueReports over a period with no sale returns totalRevenue 0, totalOrders 0,
\* averageOrderValue 0, growthRate 0 and, with includeCustomerInsights,
\* averageCustomerValue 0, and no number it returns comes from a division by zero.
C19_EmptyReportZeroed ==
    EmptyReport =>
        LET report == ret.value IN
        /\ report.totalRevenue = 0
        /\ report.averageOrderValue.den # 0 /\ report.averageOrderValue.num = 0
        /\ report.growthRate # <<>> =>
               report.growthRate[1].den # 0 /\ report.growthRate[1].num = 0
        /\ report.customerInsights # <<>> =>
               /\ report.customerInsights[1].averageCustomerValue.den # 0
               /\ report.customerInsights[1].averageCustomerValue.num = 0

\* the midnight that begins the day of the instant t
StartOfToday(t) == t - (t % 24)

\* the midnight that begins the latest Sunday not after t: the days since
\* 2024-01-01, a Monday, that leave 6 when divided by 7 are the Sundays
StartOfWeek(t) ==
    CHOOSE s \in {StartOfToday(t) - Day(k) : k \in 0..6} : (s \div 24) % 7 = 6

\* the midnight that begins the first day of the month of t
StartOfMonth(t) ==
    CHOOSE s \in {Day(MonthStartDays[k]) : k \in DOMAIN MonthStartDays} :
        /\ s <= t
        /\ \A k \in DOMAIN MonthStartDays : Day(MonthStartDays[k]) <= t => Day(MonthStartDays[k]) <= s

\* C20: whatever dateRange getSalesAnalytics is given (or none), its revenueByPeriod
\* is fixed by the sale log and the current time: daily, weekly and monthly are the
\* sums of totalAmount over all logged sales from the start of today, of this week
\* (Sunday) and of this month to now.
C20_RevenueByPeriodIgnoresRange ==
    [][Asked("getSalesAnalytics") =>
          LET rollup == ret'.value.revenueByPeriod IN
          /\ rollup.daily = TotalAmountAt(store, InRange(store, StartOfToday(now), now))
          /\ rollup.weekly = TotalAmountAt(store, InRange(store, StartOfWeek(now), now))
          /\ rollup.monthly = TotalAmountAt(store, InRange(store, StartOfMonth(now), now))]_vars

\* C20 witness: analytics were asked for a date range that selects no sale while
\* today, this week and this month each hold more revenue than the one before
C20_Witness ==
    /\ ret.op = "getSalesAnalytics"
    /\ ret.args # <<>>
    /\ ret.value.totalOrders = 0
    /\ 0 < ret.value.revenueByPeriod.daily
    /\ ret.value.revenueByPeriod.daily < ret.value.revenueByPeriod.weekly
    /\ ret.value.revenueByPeriod.weekly < ret.value.revenueByPeriod.monthly

\* the indices of the logged sales the last getSalesAnalytics call selected
Selected ==
    IF ret.args = <<>> THEN DOMAIN store.sales
    ELSE InRange(store, ret.args[1].start, ret.args[1].end)

\* the selected sales whose product is stored now under the category c
SelectedIn(c) ==
    {i \in Selected : /\ getProduct(store, store.sales[i].productId) # 0
                      /\ heap[getProduct(store, store.sales[i].productId)].category = c}

\* C21: categoryPerformance of getSalesAnalytics has one entry per category that a
\* selected sale's product has at the time of the call, with the summed revenue and
\* the number of those sales (also of sales logged before the product changed
\* category), sorted by revenue in non-increasing order.
C21_CategoryPerformanceCurrent ==
    ret.op = "getSalesAnalytics" =>
        LET perf == ret.value.categoryPerformance IN
        /\ \A i \in DOMAIN perf :
               /\ SelectedIn(perf[i].category) # {}
               /\ perf[i].orders = Cardinality(SelectedIn(perf[i].category))
               /\ perf[i].revenue = TotalAmountAt(store, SelectedIn(perf[i].category))
        /\ \A i, j \in DOMAIN perf : i < j =>
               /\ perf[i].category # perf[j].category
               /\ perf[i].revenue >= perf[j].revenue
        /\ \A s \in Selected :
               getProduct(store, store.sales[s].productId) # 0 =>
                   \E i \in DOMAIN perf :
                       perf[i].category
                           = heap[getProduct(store, store.sales[s].productId)].category

\* C21 witness: Winter Scarf was moved from Accessories to Outdoor after its sample
\* sale, and the analytics count that sale under Outdoor and nothing under Accessories
C21_Witness ==
    /\ ret.op = "getSalesAnalytics"
    /\ \E i \in DOMAIN ret.value.categoryPerformance :
           /\ ret.value.categoryPerformance[i].category = <<"O","u","t","d","o","o","r">>
           /\ ret.value.categoryPerformance[i].revenue >= 6998
    /\ \A i \in DOMAIN ret.value.categoryPerformance :
           ret.value.categoryPerformance[i].category
               # <<"A","c","c","e","s","s","o","r","i","e","s">>
    /\ Len(ret.value.categoryPerformance) = 3

\* the selected sales of the product id
SelectedOf(id) == {i \in Selected : store.sales[i].productId = id}

\* the first selected sale of the product id
FirstOf(id) == CHOOSE i \in SelectedOf(id) : \A j \in SelectedOf(id) : i <= j

\* C22: topProducts of getSalesAnalytics has one entry per distinct productId of the
\* selected sales, at most 5, each with the sum of totalAmount of that product's
\* selected sales, in non-increasing order of the sum and, for equal sums, in the order
\* of the products' first selected sales; a product left out sums to no more than any
\* listed one.
C22_TopProductsRanking ==
    ret.op = "getSalesAnalytics" =>
        LET top == ret.value.topProducts
            ids == {store.sales[i].productId : i \in Selected}
            listed == {top[i].id : i \in DOMAIN top}
        IN  /\ Len(top) = (IF Cardinality(ids) < 5 THEN Cardinality(ids) ELSE 5)
            /\ listed \subseteq ids
            /\ \A i \in DOMAIN top :
                   top[i].sales = TotalAmountAt(store, SelectedOf(top[i].id))
            /\ \A i, j \in DOMAIN top : i < j =>
                   /\ top[i].id # top[j].id
                   /\ top[i].sales >= top[j].sales
                   /\ top[i].sales = top[j].sales => FirstOf(top[i].id) < FirstOf(top[j].id)
            /\ \A id \in ids \ listed : \A i \in DOMAIN top :
                   TotalAmountAt(store, SelectedOf(id)) <= top[i].sales

\* C22 witness: more than five products have selected sales, two listed ones tie
\* and a product is left out
C22_Witness ==
    /\ ret.op = "getSalesAnalytics"
    /\ Cardinality({store.sales[i].productId : i \in Selected}) > 5
    /\ Len(ret.value.topProducts) = 5
    /\ \E i \in 1..4 : ret.value.topProducts[i].sales = ret.value.topProducts[i + 1].sales

\* the positions in the alert list of the stored product with key k
AlertsOf(k) ==
    {i \in DOMAIN ret.value.lowStockProducts : ret.value.lowStockProducts[i].id = k}

Listed == {ret.value.products[i].id : i \in DOMAIN ret.value.products}

\* the stored products of `st` that were created after the sample data was loaded
Created(st) ==
    {i \in DOMAIN st.products : st.products[i].key \notin {sampleProducts[r].id : r \in SampleRefs}}

\* C24: the tools and the seed functions work on one store: a product the
\* addNewProduct tool created is in the result of the getAllProducts tool and, when
\* its collection is the one asked for, of the getProductsByCollection tool; a product
\* seedDatabase or addDemoProducts created is found by getProductStock.
C24_OneSharedStore ==
    /\ ret.op = "listAllProducts" =>
           \A i \in Created(store) : store.products[i].key \in Listed
    /\ ret.op = "getProductsByCollection" =>
           \A i \in Created(store) :
               LET product == heap[store.products[i].ref] IN
               Truthy(product.collection)
                   /\ toLowerCase(product.collection) = toLowerCase(ret.args)
                   => product.id \in Listed
    /\ ret.op = "getProductStock" /\ instance # <<>> =>
           LET found == Resolve(instance[1], heap, ret.args.identifier,
                                ret.args.identifierType)
           IN  found # 0 /\ found \notin SampleRefs => ~ret.value.threw

\* C25: reset() leaves the store in its initial sample state: the six sample
\* products with their original field values, the five sample sales, and the
\* categories and collections of those products.
C25_ResetRestoresSamples ==
    [][Called("reset") =>
          /\ Keys(store') = [i \in SampleRefs |-> sampleProducts[i].id]
          /\ Values(store', heap') = sampleProducts
          /\ store'.sales = sampleSales
          /\ store'.categories = {sampleProducts[i].category : i \in SampleRefs}
          /\ store'.collections = {sampleProducts[i].collection : i \in SampleRefs}]_vars

\* C26: importData(s) of an earlier exportData() result s restores the store to
\* the state s was taken in: the same product ids in the same order, every
\* product with the field values (stock included) it had at the export, and
\* the sale log of that instant.
C26_ImportRestoresSnapshot ==
    [][Called("importData") =>
          /\ Values(store', heap') = snapshot[1].seen
          /\ store'.sales = snapshot[1].sales]_vars

\* C29: in a revenueReports run with compareWithPrevious the report period and
\* the previous period are disjoint: no logged sale is counted both in
\* totalOrders and in the previous period's orders, i.e. the two counts add up to
\* the number of logged sales between the previous period's start and the
\* report period's end.
C29_PeriodsDisjoint ==
    [][(/\ Asked("revenueReports")
        /\ ~ret'.value.threw
        /\ ret'.args.compareWithPrevious) =>
          LET range == ReportRange(ret'.args, now)
              start == range.start.time
              end == range.end.time
              report == ret'.value
          IN  report.totalOrders + report.previousPeriodComparison[1].orders.previous
                  = Cardinality(InRange(store, start - (end - start), end))]_vars

\* C30: getTopSellingProducts(limit, period) returns exactly min(limit, k)
\* products, k being the number of distinct productIds among the considered
\* sales that the store still holds: a deleted product never takes a place.
C30_TopSellingFillsLimit ==
    ret.op = "getTopSellingProducts" =>
        LET considered == IF ret.args.period = <<>> THEN DOMAIN store.sales
                          ELSE InRange(store, ret.args.period[1].start,
                                       ret.args.period[1].end)
            resolvable == {store.sales[i].productId : i \in considered}
                              \cap StoredIds(store)
            k == Cardinality(resolvable)
        IN  Len(ret.value) = (IF k < ret.args.limit THEN k ELSE ret.args.limit)

\* the executions of the batch in flight
Executions == IF ret.op = "executions" THEN DOMAIN ret.args ELSE {}

\* execution e is an addNewProduct that has returned success
Succeeded(e) ==
    /\ ret.args[e].tool = "addNewProduct"
    /\ ret.value[e].at = "settled"
    /\ ret.value[e].result[1].success

\* every execution of the batch is an addNewProduct, and all carry one SKU or all
\* carry one name
SameSkuOrNameBatch ==
    /\ Executions # {}
    /\ \A e \in Executions : ret.args[e].tool = "addNewProduct"
    /\ \/ \A e1, e2 \in Executions :
              /\ Truthy(ret.args[e1].context.sku)
              /\ ret.args[e1].context.sku = ret.args[e2].context.sku
       \/ \A e1, e2 \in Executions : ret.args[e1].context.name = ret.args[e2].context.name

RECURSIVE SerialStock(_, _)
SerialStock(stock, order) ==
    IF order = <<>> THEN stock
    ELSE LET call == ret.args[Head(order)]
             next == CASE call.tool = "updateInventory" ->
                              NewStock(stock, call.context.operation, call.context.quantity)
                       [] call.tool = "addSale" ->
                              NewStock(stock, "subtract", call.context.quantity)
                       [] OTHER -> stock
         IN  SerialStock(next, Tail(order))

\* the sales logged since the sample sales
LoggedSince == SubSeq(store.sales, Len(sampleSales) + 1, Len(store.sales))

\* C28: in every state of a batch of updateInventory executions and addSale calls
\* on Winter Scarf, its stock is what the operations of the executions that have
\* run, applied one after another in the order they ran, leave, and every sale
\* logged belongs to one of those executions (its decrement is in that stock).
C28_NoLostStockUpdate ==
    ret.op = "executions" =>
        LET scarf == CHOOSE k \in SampleRefs : sampleProducts[k].id = LitId(12349)
            sales == SelectSeq(ret.order, LAMBDA e : ret.args[e].tool = "addSale")
        IN  /\ Stored(store, heap, LitId(12349)).stock
                   = SerialStock(sampleProducts[scarf].stock, ret.order)
            /\ Len(LoggedSince) = Len(sales)
            /\ \A k \in DOMAIN sales :
                   /\ LoggedSince[k] = ret.value[sales[k]].result[1]
                   /\ LoggedSince[k].quantity = ret.args[sales[k]].context.quantity

\* C28 witness: an updateInventory that sets the stock to 9, a sale of 2 and an
\* updateInventory that subtracts 3 ran in that order though called in another,
\* leaving stock 4 (9, then 7, then 4) and one sale logged
C28_Witness ==
    /\ ret.op = "executions" /\ Len(ret.order) = 3
    /\ ret.order # <<1, 2, 3>>
    /\ ret.args[ret.order[1]].tool = "updateInventory"
    /\ ret.args[ret.order[1]].context.operation = "set"
    /\ ret.args[ret.order[2]].tool = "addSale"
    /\ ret.args[ret.order[2]].context.quantity = 2
    /\ ret.args[ret.order[3]].tool = "updateInventory"
    /\ ret.args[ret.order[3]].context.operation = "subtract"
    /\ Stored(store, heap, LitId(12349)).stock = 4
    /\ Len(LoggedSince) = 1

====
